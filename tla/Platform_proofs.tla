---------------------------- MODULE Platform_proofs ----------------------------
(***************************************************************************)
(* For every set of professionals, clients, accounts and addresses and any *)
(* number of pages.  The legal evidence: it repeats what the pages showed, *)
(* and who is informed stays so until the rules change; a receipt is       *)
(* recorded once, so that an event is known by its instant, and the rows   *)
(* the panels read are events with their instant.  The mailboxes: an       *)
(* address counts as verified, or gets a notice, only if its mailbox has   *)
(* shown its links.  And the platform: every step of the four components   *)
(* side by side is a step of one of them, so that what holds of each       *)
(* alone holds of them together.                                           *)
(***************************************************************************)
EXTENDS MCPlatform, DemoRefresh_proofs, SecurityThrottle_proofs

-----------------------------------------------------------------------------
(* The legal evidence *)

\* An event says what its page said.
Shown(e) ==
    /\ e.receipt \in DOMAIN pages
    /\ LET page == pages[e.receipt] IN
       /\ page.by = e.by /\ page.version = e.version /\ page.card \in {None, e.card}
       /\ page.scope # "onboarding" => page.context = e.context

\* Every page is recorded once at most.
EventsInv ==
    /\ pages \in Seq(Pages) /\ Len(pages) <= MaxPages /\ events \in Seq(Events)
    /\ \A t \in DOMAIN events : Shown(events[t])
    /\ \A t, u \in DOMAIN events : events[t].receipt = events[u].receipt => t = u
    /\ Cardinality({events[t].receipt : t \in DOMAIN events}) = Len(events)

\* What is read of the event of instant n.
ReadOf(e, n) == [version |-> e.version, by |-> e.by, card |-> e.card, channel |-> e.channel,
                 context |-> e.context, at |-> n]
Acceptance == [context : Profiles, at : 1 .. MaxPages]

\* Every row repeats the event it names.
RowsInv ==
    /\ \A row \in evidence : row.at \in DOMAIN events /\ row = ReadOf(events[row.at], row.at)
    /\ accepted \in [Professionals -> [Versions -> Acceptance \cup {None}]]
    /\ \A u \in Professionals, v \in Versions : accepted[u][v] # None =>
          /\ accepted[u][v].at \in DOMAIN events
          /\ LET e == events[accepted[u][v].at] IN
             e.by = u /\ e.version = v /\ e.context = accepted[u][v].context /\ e.channel = "onboarding"

\* Only the card of an account is merged, into one that is not, and the account moves with it.
CardsInv ==
    /\ \A c \in Salon : merged[c] = None
    /\ \A a \in Online : home[a] = IF merged[a] = None THEN a ELSE merged[a]

LInv == LTypeOK /\ EventsInv /\ RowsInv /\ CardsInv

-----------------------------------------------------------------------------
(* The events *)

(* No receipt has more than one event, so that there is room for one more. *)
LEMMA RoomForEvents ==
    ASSUME EventsInv
    PROVE  /\ Len(events) <= MaxPages /\ Len(events) \in Nat
           /\ \A t \in DOMAIN events : events[t] \in Events /\ events[t].receipt \in 1 .. MaxPages
           /\ IsFiniteSet({events[t].receipt : t \in DOMAIN events})
<1>. DEFINE R == {events[t].receipt : t \in DOMAIN events}
<1>1. \A t \in DOMAIN events : events[t] \in Events /\ events[t].receipt \in 1 .. MaxPages
  <2>1. \A t \in DOMAIN events : events[t] \in Events
    BY DEF EventsInv
  <2>. QED
    BY <2>1 DEF Events
<1>2. R \subseteq 1 .. MaxPages
  BY <1>1
<1>3. IsFiniteSet(1 .. MaxPages) /\ Cardinality(1 .. MaxPages) = MaxPages
  BY FS_Interval, LegalAssumption
<1>4. IsFiniteSet(R) /\ Cardinality(R) <= MaxPages
  BY <1>2, <1>3, FS_Subset
<1>. QED
  BY <1>1, <1>4 DEF EventsInv

(* An event that is recorded is there afterwards, at its instant, and the others stay. *)
LEMMA Recorded ==
    ASSUME EventsInv, NEW e \in Events, Shown(e), Log(e), UNCHANGED pages
    PROVE  /\ EventsInv'
           /\ \A t \in DOMAIN events : t \in DOMAIN events' /\ events'[t] = events[t]
           /\ Time(e) \in DOMAIN events' /\ events'[Time(e)] = e /\ Time(e) \in 1 .. MaxPages
           /\ RowOf(e) = ReadOf(e, Time(e))
           /\ Len(events') = Len(events) + 1 => Time(e) = Len(events')
           /\ Len(events') <= MaxPages
<1>1. RowOf(e) = ReadOf(e, Time(e))
  BY DEF RowOf, ReadOf
<1>2. events \in Seq(Events) /\ Len(events) \in Nat /\ DOMAIN events = 1 .. Len(events)
  BY DEF EventsInv
<1>3. CASE Earlier(e) = {}
  <2>. DEFINE R == {events[t].receipt : t \in DOMAIN events}
  <2>1. /\ events' = Append(events, e) /\ Time(e) = Len(events) + 1
        /\ \A t \in DOMAIN events : events[t].receipt # e.receipt
    BY <1>3 DEF Log, Time, Earlier
  <2>2. /\ events' \in Seq(Events) /\ Len(events') = Len(events) + 1
        /\ DOMAIN events' = DOMAIN events \cup {Len(events) + 1}
        /\ events'[Len(events) + 1] = e /\ \A t \in DOMAIN events : events'[t] = events[t]
    BY <1>2, <2>1
  <2>3. {events'[t].receipt : t \in DOMAIN events'} = R \cup {e.receipt}
    BY <1>2, <2>2
  <2>4. e.receipt \notin R /\ IsFiniteSet(R) /\ Cardinality(R) = Len(events)
    BY <2>1, RoomForEvents DEF EventsInv
  <2>5. Cardinality(R \cup {e.receipt}) = Len(events) + 1
    BY <2>4, FS_AddElement
  <2>6. ASSUME NEW t \in DOMAIN events' PROVE Shown(events[t])'
    <3>1. CASE t \in DOMAIN events
      BY <2>2, <3>1 DEF EventsInv, Shown
    <3>2. CASE t = Len(events) + 1
      BY <2>2, <3>2 DEF Shown
    <3>. QED
      BY <2>2, <2>6, <3>1, <3>2
  <2>7. EventsInv'
    <3>1. \A t, u \in DOMAIN events' : events'[t].receipt = events'[u].receipt => t = u
      BY <2>1, <2>2 DEF EventsInv
    <3>. QED
      BY <2>2, <2>3, <2>5, <2>6, <3>1 DEF EventsInv
  <2>8. Len(events') <= MaxPages
    <3>1. R \cup {e.receipt} \subseteq 1 .. MaxPages
      BY RoomForEvents DEF Events
    <3>2. IsFiniteSet(1 .. MaxPages) /\ Cardinality(1 .. MaxPages) = MaxPages
      BY FS_Interval, LegalAssumption
    <3>3. Cardinality(R \cup {e.receipt}) <= Cardinality(1 .. MaxPages)
      BY <3>1, <3>2, FS_Subset
    <3>. QED
      BY <2>2, <2>5, <3>2, <3>3
  <2>. QED
    BY <1>1, <1>2, <2>1, <2>2, <2>7, <2>8, LegalAssumption
<1>4. CASE Earlier(e) # {}
  <2>1. events' = events /\ Time(e) \in Earlier(e)
    BY <1>4 DEF Log, Time
  <2>2. Time(e) \in DOMAIN events /\ events[Time(e)] = e
    BY <2>1 DEF Log, Earlier, EventMatches
  <2>3. EventsInv'
    BY <2>1 DEF EventsInv, Shown
  <2>4. Len(events) <= MaxPages /\ MaxPages \in Nat
    BY RoomForEvents, LegalAssumption
  <2>5. Time(e) \in 1 .. MaxPages
    BY <1>2, <2>2, <2>4
  <2>6. Len(events') # Len(events) + 1
    <3>1. Len(events') = Len(events)
      BY <2>1, Zenon
    <3>2. \A n \in Nat : n # n + 1
      OBVIOUS
    <3>3. Len(events) \in Nat
      BY <1>2
    <3>. QED
      BY <3>1, <3>2, <3>3, Zenon
  <2>. QED
    BY <1>1, <2>1, <2>2, <2>3, <2>4, <2>5, <2>6
<1>. QED
  BY <1>3, <1>4

-----------------------------------------------------------------------------
(* The steps *)

\* What recording the information of a client has in common, wherever it is done.
Informing(e) ==
    /\ e \in Events /\ Shown(e) /\ Log(e) /\ e.card \in Cards
    /\ e.version = inForce["customer"] /\ e.context = profile
    /\ RowOf(e) \in evidence' /\ evidence' \subseteq evidence \cup {RowOf(e)}
    /\ \A row \in evidence : row \notin evidence' => row.card = e.card /\ row.version = e.version
    /\ UNCHANGED <<enabled, profile, inForce, pages, accepted, merged, home>>
    /\ known \subseteq known' /\ known' \subseteq Cards /\ verified' \subseteq Online

\* ... and what changes the rules or the lists of cards and of proved addresses.
Ruling ==
    /\ enabled' \in BOOLEAN /\ profile' \in Profiles \cup {None} /\ inForce' \in [Kinds -> 0 .. MaxVersion]
    /\ known' \subseteq Cards /\ verified' \subseteq Online
    /\ UNCHANGED <<pages, events, accepted, evidence, merged, home>>

(* The event of a page that resolves is one of its kind and says what the page said. *)
LEMMA Resolved ==
    ASSUME LTypeOK, EventsInv, NEW r, NEW scope \in Scopes \ {"onboarding"}, NEW by \in Professionals \cup Online,
           NEW shown, NEW card \in Cards, shown \in {None, card}, Resolves(r, scope, by, shown),
           NEW way \in Channels \cup Scopes
    PROVE  LET e == Event(r, by, card, way, profile) IN
           /\ e \in Events /\ Shown(e) /\ e.card = card /\ e.by = by /\ e.channel = way
           /\ e.version = inForce["customer"] /\ e.context = profile
<1>. DEFINE e == Event(r, by, card, way, profile)
<1>1. /\ pages \in Seq(Pages) /\ Len(pages) <= MaxPages /\ Len(pages) \in Nat /\ profile \in Profiles \cup {None}
      /\ MaxPages \in Nat
  BY LegalAssumption DEF EventsInv, LTypeOK
<1>2. r \in DOMAIN pages /\ pages[r] = PageNow(scope, by, shown)
  BY DEF Resolves
<1>3. r \in 1 .. MaxPages /\ pages[r] \in Pages
  BY <1>1, <1>2
<1>4. pages[r].version \in Versions /\ pages[r].version = inForce["customer"] /\ pages[r].by = by
      /\ pages[r].card = shown /\ pages[r].context = profile
  BY <1>2, <1>3 DEF Pages, PageNow, KindOf
<1>5. /\ e.receipt = r /\ e.by = by /\ e.card = card /\ e.channel = way
      /\ e.version = pages[r].version /\ e.context = profile
  BY DEF Event
<1>6. e \in Events
  BY <1>1, <1>3, <1>4 DEF Event, Events
<1>7. Shown(e)
  BY <1>2, <1>4, <1>5 DEF Shown
<1>. QED
  BY <1>4, <1>5, <1>6, <1>7

(* A row that acknowledge_customer_privacy replaces is of the same card and version. *)
LEMMA Acknowledges ==
    ASSUME LTypeOK, NEW a \in Online, NEW r, NEW scope, Acknowledge(a, r, scope)
    PROVE  LET e == Event(r, a, home[a], scope, profile) IN
           /\ Log(e) /\ RowOf(e) \in evidence' /\ evidence' \subseteq evidence \cup {RowOf(e)}
           /\ \A row \in evidence : row \notin evidence' => row.card = e.card /\ row.version = e.version
<1>. DEFINE e == Event(r, a, home[a], scope, profile)
            Same(row) == [row EXCEPT !.context = e.context, !.at = Time(e)] = RowOf(e)
<1>1. Log(e) /\ evidence' = {row \in evidence : ~Same(row)} \cup {RowOf(e)}
  BY DEF Acknowledge
<1>2. ASSUME NEW row \in evidence, Same(row) PROVE row.card = e.card /\ row.version = e.version
  <2>1. row \in EvidenceRows
    BY DEF LTypeOK
  <2>2. RowOf(e).card = e.card /\ RowOf(e).version = e.version
    BY DEF RowOf
  <2>3. /\ [row EXCEPT !.context = e.context, !.at = Time(e)].card = row.card
        /\ [row EXCEPT !.context = e.context, !.at = Time(e)].version = row.version
    BY <2>1 DEF EvidenceRows
  <2>. QED
    BY <1>2, <2>2, <2>3
<1>. QED
  BY <1>1, <1>2

LEMMA InformingSteps ==
    ASSUME LTypeOK, EventsInv,
           \/ \E u \in Professionals, c \in Cards, r \in DOMAIN pages, way \in Channels :
                 RecordInformation(u, c, r, way) \/ (c \in Salon /\ SaveQuickForm(u, c, r, way))
           \/ \E a \in Online, r \in DOMAIN pages : Verify(a, r) \/ \E c \in Cards : Confirm(a, c, r)
    PROVE  \E e \in Events : Informing(e)
<1>1. ASSUME NEW u \in Professionals, NEW c \in Cards, NEW r \in DOMAIN pages, NEW way \in Channels,
             RecordInformation(u, c, r, way)
      PROVE  \E e \in Events : Informing(e)
  <2>. DEFINE e == Event(r, u, c, way, profile)
  <2>1. /\ Log(e) /\ evidence' = evidence \cup {RowOf(e)} /\ Resolves(r, "manual", u, c)
        /\ UNCHANGED <<enabled, profile, inForce, pages, accepted, cardvars>>
    BY <1>1 DEF RecordInformation
  <2>2. /\ e \in Events /\ Shown(e) /\ e.card = c /\ e.version = inForce["customer"] /\ e.context = profile
    BY <2>1, Resolved DEF Scopes
  <2>. QED
    BY <2>1, <2>2 DEF Informing, LTypeOK, cardvars
<1>2. ASSUME NEW u \in Professionals, NEW c \in Salon, NEW r \in DOMAIN pages, NEW way \in Channels,
             SaveQuickForm(u, c, r, way)
      PROVE  \E e \in Events : Informing(e)
  <2>. DEFINE e == Event(r, u, c, way, profile)
  <2>1. /\ Log(e) /\ evidence' = evidence \cup {RowOf(e)} /\ Resolves(r, "quick", u, None) /\ known' = known \cup {c}
        /\ UNCHANGED <<enabled, profile, inForce, pages, accepted, merged, home, verified>>
    BY <1>2 DEF SaveQuickForm
  <2>2. c \in Cards
    BY DEF Cards
  <2>3. /\ e \in Events /\ Shown(e) /\ e.card = c /\ e.version = inForce["customer"] /\ e.context = profile
    BY <2>1, <2>2, Resolved DEF Scopes
  <2>. QED
    BY <2>1, <2>2, <2>3 DEF Informing, LTypeOK
<1>3. ASSUME NEW a \in Online, NEW r \in DOMAIN pages, NEW scope \in {"verification", "booking"},
             Resolves(r, scope, a, None), Acknowledge(a, r, scope),
             UNCHANGED <<enabled, profile, inForce, pages, accepted, merged, home>>,
             known' = known, verified' \subseteq Online
      PROVE  \E e \in Events : Informing(e)
  <2>. DEFINE e == Event(r, a, home[a], scope, profile)
  <2>1. home[a] \in Cards
    BY DEF LTypeOK
  <2>2. /\ e \in Events /\ Shown(e) /\ e.card = home[a] /\ e.version = inForce["customer"] /\ e.context = profile
    BY <1>3, <2>1, Resolved DEF Scopes
  <2>3. /\ Log(e) /\ RowOf(e) \in evidence' /\ evidence' \subseteq evidence \cup {RowOf(e)}
        /\ \A row \in evidence : row \notin evidence' => row.card = e.card /\ row.version = e.version
    BY <1>3, Acknowledges
  <2>. QED
    BY <1>3, <2>1, <2>2, <2>3 DEF Informing, LTypeOK
<1>4. ASSUME NEW a \in Online, NEW r \in DOMAIN pages, Verify(a, r) \/ \E c \in Cards : Confirm(a, c, r)
      PROVE  \E e \in Events : Informing(e)
  BY <1>3, <1>4 DEF Verify, Confirm, LTypeOK, cardvars
<1>. QED
  BY <1>1, <1>2, <1>4

LEMMA LegalSteps ==
    ASSUME LTypeOK, EventsInv, [LNext]_legalvars
    PROVE  \/ \E e \in Events : Informing(e)
           \/ \E u \in Professionals, r \in DOMAIN pages, p \in Profiles : AcceptDocuments(u, r, p)
           \/ \E scope \in Scopes, by \in Professionals \cup Online, card \in Cards \cup {None} : Show(scope, by, card)
           \/ \E p \in Salon, o \in Online : Merge(p, o)
           \/ Ruling
<1>1. CASE \E p \in Profiles : EditProfile(p)
  BY <1>1 DEF EditProfile, Ruling, LTypeOK, cardvars, SameRules
<1>2. CASE RequireCompliance
  BY <1>2 DEF RequireCompliance, Ruling, LTypeOK, cardvars, SameRules
<1>3. CASE \E k \in Kinds : Publish(k) \/ Unpublish(k)
  <2>1. PICK k \in Kinds : Publish(k) \/ Unpublish(k)
    BY <1>3
  <2>2. inForce' \in [Kinds -> 0 .. MaxVersion]
    BY <2>1, LegalAssumption DEF Publish, Unpublish, LTypeOK
  <2>. QED
    BY <2>1, <2>2 DEF Publish, Unpublish, Ruling, LTypeOK, cardvars, SameRules
<1>4. CASE \E c \in Salon : SaveWithoutEvidence(c)
  BY <1>4 DEF SaveWithoutEvidence, Ruling, LTypeOK, Cards, SameRules
<1>5. CASE \E a \in Online : VerifyWithoutEvidence(a)
  BY <1>5 DEF VerifyWithoutEvidence, Ruling, LTypeOK, SameRules
<1>6. CASE UNCHANGED legalvars
  BY <1>6 DEF legalvars, cardvars, Ruling, LTypeOK, SameRules
<1>7. CASE \E u \in Professionals, c \in Cards : OpenCard(u, c)
  BY <1>7 DEF OpenCard, Scopes
<1>8. CASE (\E u \in Professionals : Onboard(u) \/ OpenQuickForm(u)) \/ \E a \in Online : OpenVerification(a) \/ OpenConfirmation(a)
  BY <1>8 DEF Onboard, OpenQuickForm, OpenVerification, OpenConfirmation, Scopes
<1>9. CASE \/ \E u \in Professionals, c \in Cards, r \in DOMAIN pages, way \in Channels :
                 RecordInformation(u, c, r, way) \/ (c \in Salon /\ SaveQuickForm(u, c, r, way))
           \/ \E a \in Online, r \in DOMAIN pages : Verify(a, r) \/ \E c \in Cards : Confirm(a, c, r)
  BY <1>9, InformingSteps
<1>. QED
  BY <1>1, <1>2, <1>3, <1>4, <1>5, <1>6, <1>7, <1>8, <1>9 DEF LNext, AtTheBusiness, AtTheSalon, Clients

-----------------------------------------------------------------------------
(* The invariant is kept *)

(* The rows keep repeating events when one is recorded and one row of it is written. *)
LEMMA RowsRepeat ==
    ASSUME LTypeOK, EventsInv, RowsInv, NEW e \in Events, Shown(e), Log(e), e.card \in Cards, UNCHANGED pages,
           evidence' \subseteq evidence \cup {RowOf(e)}
    PROVE  /\ evidence' \subseteq EvidenceRows
           /\ \A row \in evidence' : row.at \in DOMAIN events' /\ row = ReadOf(events'[row.at], row.at)
<1>1. /\ \A t \in DOMAIN events : t \in DOMAIN events' /\ events'[t] = events[t]
      /\ Time(e) \in DOMAIN events' /\ events'[Time(e)] = e /\ Time(e) \in 1 .. MaxPages
      /\ RowOf(e) = ReadOf(e, Time(e))
  BY Recorded
<1>2. RowOf(e) \in EvidenceRows /\ RowOf(e).at = Time(e)
  BY <1>1 DEF RowOf, EvidenceRows, Events
<1>. QED
  BY <1>1, <1>2 DEF RowsInv, LTypeOK

LEMMA InformingKeeps ==
    ASSUME LInv, NEW e \in Events, Informing(e)
    PROVE  LInv'
<1>1. LTypeOK /\ EventsInv /\ RowsInv /\ CardsInv
  BY DEF LInv
<1>2. /\ Shown(e) /\ Log(e) /\ e.card \in Cards /\ evidence' \subseteq evidence \cup {RowOf(e)}
      /\ UNCHANGED <<enabled, profile, inForce, pages, accepted, merged, home>>
      /\ known' \subseteq Cards /\ verified' \subseteq Online
  BY DEF Informing
<1>3. EventsInv' /\ \A t \in DOMAIN events : t \in DOMAIN events' /\ events'[t] = events[t]
  BY <1>1, <1>2, Recorded
<1>4. /\ evidence' \subseteq EvidenceRows
      /\ \A row \in evidence' : row.at \in DOMAIN events' /\ row = ReadOf(events'[row.at], row.at)
  BY <1>1, <1>2, RowsRepeat
<1>5. LTypeOK'
  <2>1. \A t \in DOMAIN events' : events'[t] \in Events
    BY <1>3 DEF EventsInv
  <2>. QED
    BY <1>1, <1>2, <1>4, <2>1 DEF LTypeOK
<1>6. RowsInv'
  BY <1>1, <1>2, <1>3, <1>4 DEF RowsInv
<1>7. CardsInv'
  BY <1>1, <1>2 DEF CardsInv
<1>. QED
  BY <1>3, <1>5, <1>6, <1>7 DEF LInv

(* What accepting the documents records: an event of the professional and the version shown. *)
LEMMA Accepting ==
    ASSUME LInv, NEW u \in Professionals, NEW r \in DOMAIN pages, NEW p \in Profiles, AcceptDocuments(u, r, p)
    PROVE  LET e == Event(r, u, None, "onboarding", p) IN
           /\ e \in Events /\ Shown(e) /\ Log(e) /\ profile' = p
           /\ e.by = u /\ e.card = None /\ e.channel = "onboarding" /\ e.context = p
           /\ e.version = inForce["professional"] /\ e.version \in Versions
           /\ accepted' = [accepted EXCEPT ![u][e.version] = [context |-> p, at |-> Time(e)]]
           /\ UNCHANGED <<enabled, inForce, pages, evidence, cardvars>>
<1>. DEFINE e == Event(r, u, None, "onboarding", p)
<1>1. /\ Resolves(r, "onboarding", u, None) /\ Log(e) /\ profile' = p
      /\ accepted' = [accepted EXCEPT ![u][e.version] = [context |-> p, at |-> Time(e)]]
      /\ UNCHANGED <<enabled, inForce, pages, evidence, cardvars>>
  BY DEF AcceptDocuments
<1>2. pages \in Seq(Pages) /\ Len(pages) <= MaxPages /\ Len(pages) \in Nat /\ MaxPages \in Nat
  BY LegalAssumption DEF LInv, EventsInv
<1>3. r \in 1 .. MaxPages /\ pages[r] \in Pages /\ pages[r] = PageNow("onboarding", u, None)
  BY <1>1, <1>2 DEF Resolves
<1>4. /\ pages[r].version \in Versions /\ pages[r].version = inForce["professional"]
      /\ pages[r].by = u /\ pages[r].card = None /\ pages[r].scope = "onboarding"
  BY <1>3 DEF Pages, PageNow, KindOf
<1>5. /\ e.receipt = r /\ e.by = u /\ e.card = None /\ e.channel = "onboarding"
      /\ e.version = pages[r].version /\ e.context = p
  BY DEF Event
<1>6. e \in Events
  BY <1>3, <1>4 DEF Event, Events, Scopes
<1>7. Shown(e)
  BY <1>4, <1>5 DEF Shown
<1>. QED
  BY <1>1, <1>4, <1>5, <1>6, <1>7

LEMMA AcceptingKeeps ==
    ASSUME LInv, NEW u \in Professionals, NEW r \in DOMAIN pages, NEW p \in Profiles, AcceptDocuments(u, r, p)
    PROVE  LInv'
<1>. DEFINE e == Event(r, u, None, "onboarding", p)
            a == [context |-> p, at |-> Time(e)]
<1>1. LTypeOK /\ EventsInv /\ RowsInv /\ CardsInv
  BY DEF LInv
<1>2. /\ e \in Events /\ Shown(e) /\ Log(e) /\ profile' = p
      /\ e.by = u /\ e.card = None /\ e.channel = "onboarding" /\ e.context = p /\ e.version \in Versions
      /\ accepted' = [accepted EXCEPT ![u][e.version] = a]
      /\ UNCHANGED <<enabled, inForce, pages, evidence, cardvars>>
  BY Accepting
<1>3. /\ EventsInv' /\ \A t \in DOMAIN events : t \in DOMAIN events' /\ events'[t] = events[t]
      /\ Time(e) \in DOMAIN events' /\ events'[Time(e)] = e /\ Time(e) \in 1 .. MaxPages
  BY <1>1, <1>2, Recorded
<1>4. LTypeOK'
  <2>1. \A t \in DOMAIN events' : events'[t] \in Events
    BY <1>3 DEF EventsInv
  <2>. QED
    BY <1>1, <1>2, <2>1 DEF LTypeOK, cardvars
<1>5. RowsInv'
  <2>1. a \in Acceptance /\ a.context = p /\ a.at = Time(e)
    BY <1>3 DEF Acceptance
  <2>2. accepted \in [Professionals -> [Versions -> Acceptance \cup {None}]]
    BY <1>1 DEF RowsInv
  <2>3. accepted' \in [Professionals -> [Versions -> Acceptance \cup {None}]]
    BY <1>2, <2>1, <2>2
  <2>4. ASSUME NEW w \in Professionals, NEW v \in Versions, accepted'[w][v] # None
        PROVE  /\ accepted'[w][v].at \in DOMAIN events'
               /\ LET f == events'[accepted'[w][v].at] IN
                  f.by = w /\ f.version = v /\ f.context = accepted'[w][v].context /\ f.channel = "onboarding"
    <3>1. CASE w = u /\ v = e.version
      <4>1. accepted'[w][v] = a
        BY <1>2, <2>2, <3>1
      <4>. QED
        BY <1>2, <1>3, <2>1, <3>1, <4>1
    <3>2. CASE ~(w = u /\ v = e.version)
      <4>1. accepted'[w][v] = accepted[w][v]
        BY <1>2, <2>2, <3>2
      <4>. QED
        BY <1>1, <1>3, <2>4, <4>1 DEF RowsInv
    <3>. QED
      BY <3>1, <3>2
  <2>5. \A row \in evidence' : row.at \in DOMAIN events' /\ row = ReadOf(events'[row.at], row.at)
    BY <1>1, <1>2, <1>3 DEF RowsInv
  <2>. QED
    BY <2>3, <2>4, <2>5 DEF RowsInv
<1>6. CardsInv'
  BY <1>1, <1>2 DEF CardsInv, cardvars
<1>. QED
  BY <1>3, <1>4, <1>5, <1>6 DEF LInv

LEMMA ShowingKeeps ==
    ASSUME LInv, NEW scope \in Scopes, NEW by \in Professionals \cup Online, NEW card \in Cards \cup {None},
           Show(scope, by, card)
    PROVE  LInv'
<1>1. LTypeOK /\ EventsInv /\ RowsInv /\ CardsInv
  BY DEF LInv
<1>2. /\ Len(pages) < MaxPages /\ inForce[KindOf(scope)] # 0 /\ pages' = Append(pages, PageNow(scope, by, card))
      /\ UNCHANGED <<enabled, profile, inForce, events, accepted, evidence, cardvars>>
  BY DEF Show
<1>3. PageNow(scope, by, card) \in Pages
  <2>1. inForce[KindOf(scope)] \in Versions
    BY <1>1, <1>2, LegalAssumption DEF LTypeOK, KindOf, Kinds, Versions
  <2>2. (IF scope = "onboarding" THEN None ELSE profile) \in Profiles \cup {None}
    BY <1>1 DEF LTypeOK
  <2>. QED
    BY <2>1, <2>2 DEF PageNow, Pages
<1>4. pages \in Seq(Pages) /\ Len(pages) \in Nat /\ MaxPages \in Nat
  BY <1>1, LegalAssumption DEF EventsInv
<1>5. /\ pages' \in Seq(Pages) /\ Len(pages') <= MaxPages
      /\ \A n \in DOMAIN pages : n \in DOMAIN pages' /\ pages'[n] = pages[n]
  BY <1>2, <1>3, <1>4
<1>6. EventsInv'
  <2>1. ASSUME NEW t \in DOMAIN events PROVE Shown(events[t])'
    BY <1>1, <1>2, <1>5 DEF EventsInv, Shown
  <2>. QED
    BY <1>1, <1>2, <1>5, <2>1 DEF EventsInv
<1>7. LTypeOK'
  <2>1. \A n \in DOMAIN pages' : pages'[n] \in Pages
    BY <1>5
  <2>. QED
    BY <1>1, <1>2, <2>1 DEF LTypeOK, cardvars
<1>8. RowsInv' /\ CardsInv'
  BY <1>1, <1>2 DEF RowsInv, CardsInv, cardvars
<1>. QED
  BY <1>6, <1>7, <1>8 DEF LInv

LEMMA MergingKeeps ==
    ASSUME LInv, NEW p \in Salon, NEW o \in Online, Merge(p, o)
    PROVE  LInv'
<1>1. LTypeOK /\ EventsInv /\ RowsInv /\ CardsInv
  BY DEF LInv
<1>2. /\ merged' = [merged EXCEPT ![o] = p] /\ home' = [home EXCEPT ![o] = p]
      /\ UNCHANGED <<enabled, profile, inForce, pages, events, accepted, evidence, known, verified>>
  BY DEF Merge
<1>3. o \in Cards /\ p \in Cards /\ o \notin Salon /\ p # None
  BY LegalAssumption DEF Cards
<1>4. LTypeOK'
  BY <1>1, <1>2, <1>3 DEF LTypeOK
<1>5. EventsInv' /\ RowsInv'
  BY <1>1, <1>2 DEF EventsInv, RowsInv, Shown
<1>6. CardsInv'
  BY <1>1, <1>2, <1>3 DEF CardsInv, LTypeOK, Cards
<1>. QED
  BY <1>4, <1>5, <1>6 DEF LInv

LEMMA LegalInit ==
    ASSUME LInit
    PROVE  LInv
<1>1. LTypeOK
  BY LegalAssumption DEF LInit, LTypeOK, Cards, Kinds
<1>2. EventsInv
  <2>1. events = <<>> /\ pages = <<>> /\ MaxPages \in Nat
    BY LegalAssumption DEF LInit
  <2>2. DOMAIN events = {} /\ Len(events) = 0 /\ Len(pages) = 0 /\ events \in Seq(Events) /\ pages \in Seq(Pages)
    BY <2>1
  <2>3. {events[t].receipt : t \in DOMAIN events} = {}
    BY <2>2
  <2>4. Cardinality({events[t].receipt : t \in DOMAIN events}) = Len(events)
    <3>1. Cardinality({}) = 0
      BY FS_EmptySet
    <3>. QED
      BY <2>2, <2>3, <3>1
  <2>5. Len(pages) <= MaxPages
    BY <2>1, <2>2
  <2>. QED
    BY <2>2, <2>4, <2>5 DEF EventsInv
<1>3. RowsInv /\ CardsInv
  BY DEF LInit, RowsInv, CardsInv, Cards
<1>. QED
  BY <1>1, <1>2, <1>3 DEF LInv

LEMMA LegalStep ==
    ASSUME LInv, [LNext]_legalvars
    PROVE  LInv'
<1>1. ASSUME Ruling PROVE LInv'
  <2>1. LTypeOK'
    BY <1>1 DEF LInv, LTypeOK, Ruling
  <2>2. EventsInv'
    BY <1>1 DEF LInv, EventsInv, Shown, Ruling
  <2>3. RowsInv' /\ CardsInv'
    BY <1>1 DEF LInv, RowsInv, CardsInv, Ruling
  <2>. QED
    BY <2>1, <2>2, <2>3 DEF LInv
<1>2. LTypeOK /\ EventsInv
  BY DEF LInv
<1>. QED
  BY <1>1, <1>2, LegalSteps, InformingKeeps, AcceptingKeeps, ShowingKeeps, MergingKeeps

THEOREM LegalInvariant == LSpec => []LInv
<1>1. LInit => LInv
  BY LegalInit
<1>2. LInv /\ [LNext]_legalvars => LInv'
  BY LegalStep
<1>. QED
  BY <1>1, <1>2, PTL DEF LSpec

(* The rows, cards and versions have the shape the models give them (LTypeOK, from the models  *)
(* of accounts, legal documents and customers).                                                *)
THEOREM LegalTypes == LSpec => []LTypeOK
<1>1. LInv => LTypeOK
  BY DEF LInv
<1>. QED
  BY <1>1, LegalInvariant, PTL

(* A receipt is recorded once, for the person and with the version and identity its page      *)
(* showed, and every row the panels read repeats exactly one event (resolve_legal_presentation *)
(* and _event_values_match against the projections).                                           *)
THEOREM EvidenceTells == LSpec => []EvidenceTellsTheTruth
<1>1. ASSUME LInv PROVE EvidenceTellsTheTruth
  <2>1. EventsInv /\ RowsInv
    BY <1>1 DEF LInv
  <2>2. ASSUME NEW t \in DOMAIN events PROVE Earlier(events[t]) = {t}
    BY <2>1 DEF EventsInv, Earlier
  <2>3. ASSUME NEW row \in evidence PROVE RowOf(events[row.at]) = row
    <3>1. row.at \in DOMAIN events /\ row = ReadOf(events[row.at], row.at)
      BY <2>1 DEF RowsInv
    <3>2. Earlier(events[row.at]) = {row.at}
      BY <2>2, <3>1
    <3>3. Time(events[row.at]) = row.at
      BY <3>2 DEF Time
    <3>4. RowOf(events[row.at]) = ReadOf(events[row.at], row.at)
      BY <3>3 DEF RowOf, ReadOf
    <3>. QED
      BY <3>1, <3>4
  <2>4. \A t \in DOMAIN events : Shown(events[t])
    BY <2>1 DEF EventsInv
  <2>5. ASSUME NEW u \in Professionals, NEW v \in Versions, accepted[u][v] # None
        PROVE  LET e == events[accepted[u][v].at] IN
               e.by = u /\ e.version = v /\ e.context = accepted[u][v].context /\ e.channel = "onboarding"
    BY <2>1, <2>5 DEF RowsInv
  <2>. QED
    BY <2>2, <2>3, <2>4, <2>5 DEF EvidenceTellsTheTruth, Shown
<1>. QED
  BY <1>1, LegalInvariant, PTL

-----------------------------------------------------------------------------
(* Who is informed stays informed *)

(* A card that has absorbed others keeps them, and one that is merged away is not lost. *)
LEMMA MergingRelates ==
    ASSUME LInv, NEW p \in Salon, NEW o \in Online, Merge(p, o)
    PROVE  /\ \A c \in Cards : Related(c) \subseteq Related(c)'
           /\ Related(o) \subseteq Related(p)'
<1>1. /\ merged \in [Cards -> Salon \cup {None}] /\ \A c \in Salon : merged[c] = None
      /\ merged[o] = None /\ merged' = [merged EXCEPT ![o] = p]
  BY DEF LInv, LTypeOK, CardsInv, Merge
<1>2. o \in Cards /\ o \notin Salon /\ p \in Cards /\ o # p /\ None \notin Cards
  BY LegalAssumption DEF Cards
<1>3. \A d \in Cards : d # o => merged'[d] = merged[d]
  BY <1>1
<1>4. merged'[o] = p /\ merged'[p] = None
  BY <1>1, <1>2
<1>5. \A d \in Cards : merged[d] # o
  BY <1>1, <1>2
<1>6. ASSUME NEW c \in Cards, NEW d \in Related(c) PROVE d \in Related(c)'
  <2>1. CASE d = c
    BY <2>1 DEF Related
  <2>2. CASE d # c
    <3>1. d \in Cards /\ merged[c] = None /\ merged[d] = c
      BY <1>6, <2>2 DEF Related
    <3>2. d # o /\ c # o
      BY <1>1, <1>2, <1>5, <3>1
    <3>. QED
      BY <1>3, <3>1, <3>2 DEF Related
  <2>. QED
    BY <2>1, <2>2
<1>7. Related(o) \subseteq {o}
  BY <1>5 DEF Related
<1>8. o \in Related(p)'
  BY <1>2, <1>4 DEF Related
<1>. QED
  BY <1>6, <1>7, <1>8

(* What was recorded for a card counts for the card that answers for it. *)
LEMMA KeptAnswers ==
    ASSUME LInv, NEW c \in Cards
    PROVE  Kept(c) \in Cards /\ c \in Related(Kept(c))
<1>1. merged \in [Cards -> Salon \cup {None}] /\ (\A d \in Salon : merged[d] = None) /\ Salon \subseteq Cards
  BY DEF LInv, LTypeOK, CardsInv, Cards
<1>. QED
  BY <1>1 DEF Kept, Related

LEMMA InformingInforms ==
    ASSUME LInv, NEW e \in Events, Informing(e)
    PROVE  /\ \A c \in Cards : Informed(c) => Informed(c)'
           /\ NewEvent => LatestCounts'
<1>1. /\ EventsInv /\ Shown(e) /\ Log(e) /\ e.card \in Cards /\ RowOf(e) \in evidence'
      /\ e.version = inForce["customer"] /\ e.context = profile
      /\ \A row \in evidence : row \notin evidence' => row.card = e.card /\ row.version = e.version
      /\ UNCHANGED <<enabled, profile, inForce, pages, accepted, merged, home>>
  BY DEF Informing, LInv
<1>2. RowOf(e).card = e.card /\ RowOf(e).version = inForce'["customer"] /\ RowOf(e).context = profile'
  BY <1>1 DEF RowOf
<1>3. ASSUME NEW c \in Cards, Informed(c) PROVE Informed(c)'
  <2>1. Related(c)' = Related(c)
    BY <1>1 DEF Related
  <2>2. CASE ~enabled
    BY <1>1, <2>2 DEF Informed
  <2>3. ASSUME NEW row \in evidence, row.card \in Related(c), row.version = inForce["customer"], row.context = profile
        PROVE  Informed(c)'
    <3>1. CASE row \in evidence'
      BY <1>1, <2>1, <2>3, <3>1 DEF Informed
    <3>2. CASE row \notin evidence'
      <4>1. RowOf(e).card \in Related(c)'
        BY <1>1, <1>2, <2>1, <2>3, <3>2
      <4>. DEFINE new == RowOf(e)
      <4>2. new \in evidence' /\ new.card \in Related(c)' /\ new.version = inForce'["customer"] /\ new.context = profile'
        BY <1>1, <1>2, <4>1
      <4>. HIDE DEF new
      <4>. QED
        BY <4>2 DEF Informed
    <3>. QED
      BY <3>1, <3>2
  <2>. QED
    BY <1>3, <2>2, <2>3 DEF Informed
<1>4. ASSUME NewEvent PROVE LatestCounts'
  <2>1. events'[Len(events')] = e
    BY <1>1, <1>4, Recorded DEF NewEvent
  <2>2. e.card # None
    BY <1>1, LegalAssumption
  <2>. DEFINE k == Kept(e.card)
              new == RowOf(e)
  <2>3. k \in Cards /\ e.card \in Related(k)
    BY <1>1, KeptAnswers
  <2>4. (Kept(e.card))' = k
    BY <1>1 DEF Kept
  <2>5. ASSUME NEW c, c = k PROVE Informed(c)'
    <3>1. Related(c)' = Related(c)
      BY <1>1 DEF Related
    <3>2. new \in evidence' /\ new.card \in Related(c)' /\ new.version = inForce'["customer"] /\ new.context = profile'
      BY <1>1, <1>2, <2>3, <2>5, <3>1
    <3>. HIDE DEF new
    <3>. QED
      BY <3>2 DEF Informed
  <2>6. (Informed(Kept(e.card)))'
    BY <2>4, <2>5 DEF Informed, Related, Kept
  <2>. QED
    BY <2>1, <2>2, <2>6 DEF LatestCounts
<1>. QED
  BY <1>3, <1>4

LEMMA AcceptingComplies ==
    ASSUME LInv, LInv', NEW u \in Professionals, NEW r \in DOMAIN pages, NEW p \in Profiles, AcceptDocuments(u, r, p)
    PROVE  NewEvent => LatestCounts'
<1>. DEFINE e == Event(r, u, None, "onboarding", p)
            a == [context |-> p, at |-> Time(e)]
            v == e.version
<1>1. /\ e \in Events /\ Shown(e) /\ Log(e) /\ profile' = p /\ e.card = None
      /\ v = inForce["professional"] /\ v \in Versions
      /\ accepted' = [accepted EXCEPT ![u][v] = a]
      /\ UNCHANGED <<enabled, inForce, pages, evidence, cardvars>>
  BY Accepting
<1>2. /\ events'[Time(e)] = e /\ Time(e) \in 1 .. MaxPages
      /\ Len(events') = Len(events) + 1 => Time(e) = Len(events')
  BY <1>1, Recorded DEF LInv
<1>3. a # None /\ p # None /\ a.context = p /\ a.at = Time(e)
  BY <1>2, LegalAssumption
<1>4. accepted \in [Professionals -> [Versions -> Acceptance \cup {None}]]
  BY DEF LInv, RowsInv
<1>5. accepted'[u][v] = a
  BY <1>1, <1>4
<1>6. v = inForce'["professional"] /\ v # 0
  BY <1>1 DEF Versions
<1>7. ASSUME NewEvent PROVE LatestCounts'
  <2>1. events'[Len(events')] = e /\ a.at = Len(events')
    BY <1>2, <1>3, <1>7 DEF NewEvent
  <2>2. Acceptances' = {accepted'[w][v] : w \in {x \in Professionals : accepted'[x][v] # None}}
    BY <1>6 DEF Acceptances
  <2>3. a \in Acceptances'
    BY <1>3, <1>5, <2>2
  <2>4. ASSUME NEW b \in Acceptances' PROVE b.at <= a.at
    <3>1. PICK w \in Professionals : accepted'[w][v] # None /\ b = accepted'[w][v]
      BY <2>2
    <3>2. accepted'[w][v].at \in DOMAIN events' /\ events' \in Seq(Events)
      BY <1>1, <3>1 DEF LInv, RowsInv, EventsInv
    <3>. QED
      BY <2>1, <3>1, <3>2
  <2>5. Compliant'
    <3>. HIDE DEF a
    <3>. QED
      BY <1>1, <1>3, <2>3, <2>4 DEF Compliant
  <2>. QED
    BY <1>1, <2>1, <2>5 DEF LatestCounts
<1>. QED
  BY <1>7

LEMMA StaysInformedStep ==
    ASSUME LInv, LInv', [LNext]_legalvars
    PROVE  /\ SameRules => \A c \in Cards : Informed(c) => Informed(c)'
           /\ \A p \in Salon, o \in Online : Merge(p, o) /\ Informed(o) => Informed(p)'
           /\ NewEvent => LatestCounts'
<1>1. LTypeOK /\ EventsInv /\ events \in Seq(Events) /\ Len(events) \in Nat
  BY DEF LInv, EventsInv
<1>2. ASSUME NEW p \in Salon, NEW o \in Online, Merge(p, o)
      PROVE  (\A c \in Cards : Informed(c) => Informed(c)') /\ (Informed(o) => Informed(p)') /\ ~NewEvent
  <2>1. /\ UNCHANGED <<enabled, profile, inForce, events, evidence>>
        /\ \A c \in Cards : Related(c) \subseteq Related(c)'
        /\ Related(o) \subseteq Related(p)'
    BY <1>2, MergingRelates DEF Merge
  <2>2. (\A c \in Cards : Informed(c) => Informed(c)') /\ (Informed(o) => Informed(p)')
    BY <2>1 DEF Informed
  <2>3. ~NewEvent
    BY <1>1, <2>1 DEF NewEvent
  <2>. QED
    BY <2>2, <2>3
<1>3. ASSUME UNCHANGED <<events, evidence, merged>>
      PROVE  (SameRules => \A c \in Cards : Informed(c) => Informed(c)') /\ ~NewEvent
  BY <1>1, <1>3 DEF SameRules, Informed, Related, NewEvent
<1>4. ASSUME NEW u \in Professionals, NEW r \in DOMAIN pages, NEW p \in Profiles, AcceptDocuments(u, r, p)
      PROVE  (SameRules => \A c \in Cards : Informed(c) => Informed(c)') /\ (NewEvent => LatestCounts')
  <2>1. UNCHANGED <<evidence, merged>>
    BY <1>4 DEF AcceptDocuments, cardvars
  <2>2. SameRules => \A c \in Cards : Informed(c) => Informed(c)'
    BY <2>1 DEF SameRules, Informed, Related
  <2>. QED
    BY <1>4, <2>2, AcceptingComplies
<1>5. CASE \E e \in Events : Informing(e)
  <2>1. SameRules => \A c \in Cards : Informed(c) => Informed(c)'
    BY <1>5, InformingInforms
  <2>2. NewEvent => LatestCounts'
    BY <1>5, InformingInforms
  <2>. QED
    BY <1>2, <2>1, <2>2
<1>6. CASE \E scope \in Scopes, by \in Professionals \cup Online, card \in Cards \cup {None} : Show(scope, by, card)
  BY <1>2, <1>3, <1>6 DEF Show, cardvars
<1>7. CASE Ruling
  BY <1>2, <1>3, <1>7 DEF Ruling
<1>. QED
  BY <1>1, <1>2, <1>4, <1>5, <1>6, <1>7, LegalSteps

(* Who is informed or up to date stays so until the rules change, a card that takes over an     *)
(* informed one is informed, and whoever records the page shown is up to date                   *)
(* (customer_privacy_status and business_legal_status against everything that writes rows).     *)
THEOREM StaysInformed == LSpec => InformedStaysInformed
<1>1. LInv /\ LInv' /\ [LNext]_legalvars =>
        [/\ SameRules => \A c \in Cards : Informed(c) => Informed(c)'
         /\ \A p \in Salon, o \in Online : Merge(p, o) /\ Informed(o) => Informed(p)'
         /\ NewEvent => LatestCounts']_legalvars
  BY StaysInformedStep
<1>. QED
  BY <1>1, LegalInvariant, PTL DEF LSpec, InformedStaysInformed

-----------------------------------------------------------------------------
(* The mailboxes *)

(* An account saved by an activation, a verification, a change of address *)
(* or a creation is still one. *)
LEMMA SavedAccount ==
    ASSUME NEW row \in Accounts, NEW m \in Addresses
    PROVE  /\ [row EXCEPT !.active = TRUE, !.verified = TRUE, !.required = FALSE] \in Accounts
           /\ [row EXCEPT !.verified = TRUE, !.required = FALSE] \in Accounts
           /\ [row EXCEPT !.email = m, !.verified = FALSE, !.required = TRUE] \in Accounts
           /\ NewAccount(m) \in Accounts /\ OldAccount \in Accounts
  BY DEF Accounts, NewAccount, OldAccount

(* The rows keep the shape of User and Business, and a request holds a row that *)
(* it could read: an account it saves later is an account that still exists. *)
THEOREM MailboxTypes == MSpec => []MTypeOK
<1>1. ASSUME MInit PROVE MTypeOK
  <2>1. 0 \in 0 .. MaxNonce
    BY MailboxAssumption
  <2>2. \A m \in Addresses \cup {Blank} : Proposed(m) \in ChannelRows
    BY <2>1 DEF Proposed, ChannelRows
  <2>3. \A m \in Addresses : NewAccount(m) \in Accounts
    BY DEF NewAccount, Accounts
  <2>4. OldAccount \in Accounts
    BY DEF OldAccount, Accounts
  <2>5. CASE staff = [u \in Staff |-> Blank] /\ members = {} /\ channel = Proposed(Blank)
    BY <1>1, <2>1, <2>2, <2>5, MailboxAssumption DEF MInit, MTypeOK
  <2>6. ASSUME NEW u \in Staff, NEW m \in Addresses \cup {Blank},
               staff = [v \in Staff |-> IF v # u THEN Blank ELSE IF m = Blank THEN OldAccount ELSE NewAccount(m)],
               members = {u}, channel = Proposed(m)
        PROVE  MTypeOK
    <3>1. staff \in [Staff -> Accounts \cup {Blank}]
      BY <2>3, <2>4, <2>6
    <3>2. Known(u)
      BY <2>3, <2>4, <2>6, MailboxAssumption DEF Known
    <3>. QED
      BY <1>1, <2>1, <2>2, <2>6, <3>1, <3>2, MailboxAssumption DEF MInit, MTypeOK
  <2>. QED
    BY <1>1, <2>5, <2>6 DEF MInit
<1>2. ASSUME MTypeOK, [MNext]_mailvars PROVE MTypeOK'
  <2>1. ASSUME NEW p \in Panels, NEW u \in Staff, NEW m \in Addresses, BeginCreate(p, u, m) PROVE MTypeOK'
    BY <1>2, <2>1, MailboxAssumption DEF BeginCreate, MTypeOK, Holds, PanelRows, Known
  <2>2. ASSUME NEW p \in Panels, EndCreate(p) PROVE MTypeOK'
      <3>1. panel[p] \in PanelRows /\ panel[p].kind = "create"
        BY <1>2, <2>2 DEF EndCreate, Releases, MTypeOK
      <3>2. panel[p].user \in Staff /\ panel[p].email \in Addresses
        BY <3>1 DEF PanelRows
      <3>3. NewAccount(panel[p].email) \in Accounts
        BY <3>2 DEF NewAccount, Accounts
      <3>4. channel' \in ChannelRows
        BY <1>2, <2>2, <3>2 DEF EndCreate, MTypeOK, ChannelRows
      <3>5. /\ staff' = [staff EXCEPT ![panel[p].user] = NewAccount(panel[p].email)]
            /\ members' = members \cup {panel[p].user}
            /\ UNCHANGED <<nonces, reuse, mails, inbox, proved>>
            /\ panel' = [panel EXCEPT ![p] = Blank]
        BY <2>2 DEF EndCreate, Releases
      <3>. QED
        BY <1>2, <3>2, <3>3, <3>4, <3>5, MailboxAssumption DEF MTypeOK, Known
  <2>3. ASSUME NEW p \in Panels, BeginEdit(p) PROVE MTypeOK'
    BY <1>2, <2>3, MailboxAssumption DEF BeginEdit, MTypeOK, Holds, PanelRows, Known
  <2>4. ASSUME NEW p \in Panels, EndEdit(p) PROVE MTypeOK'
    BY <1>2, <2>4, MailboxAssumption DEF EndEdit, MTypeOK, Releases, PanelRows, Known
  <2>5. ASSUME NEW p \in Panels, NEW l \in inbox, BeginActivation(p, l) PROVE MTypeOK'
    BY <1>2, <2>5, MailboxAssumption DEF BeginActivation, MTypeOK, OpensAccount, Mails, Holds, PanelRows, Known
  <2>6. ASSUME NEW p \in Panels, EndActivation(p) PROVE MTypeOK'
      <3>1. /\ panel[p] \in PanelRows /\ panel[p].kind = "activate"
            /\ UNCHANGED <<members, channel, nonces, mails, inbox, proved>>
            /\ panel' = [panel EXCEPT ![p] = Blank]
        BY <1>2, <2>6 DEF EndActivation, Releases, MTypeOK
      <3>2. panel[p].user \in Staff /\ panel[p].row \in Accounts
        BY <3>1 DEF PanelRows
      <3>3. [panel[p].row EXCEPT !.active = TRUE, !.verified = TRUE, !.required = FALSE] \in Accounts
        BY <3>2, SavedAccount DEF Accounts
      <3>. QED
        BY <1>2, <2>6, <3>1, <3>2, <3>3, MailboxAssumption DEF EndActivation, MTypeOK, Known
  <2>7. ASSUME NEW p \in Panels, NEW u \in Staff, BeginPassword(p, u) PROVE MTypeOK'
    BY <1>2, <2>7, MailboxAssumption DEF BeginPassword, MTypeOK, Opened, Holds, PanelRows, Known
  <2>8. ASSUME NEW p \in Panels, EndPassword(p) PROVE MTypeOK'
    BY <1>2, <2>8, MailboxAssumption DEF EndPassword, MTypeOK, Releases, PanelRows, Known
  <2>9. ASSUME NEW p \in Panels, NEW u \in Staff, BeginAddress(p, u) PROVE MTypeOK'
    BY <1>2, <2>9, MailboxAssumption DEF BeginAddress, MTypeOK, Opened, Holds, PanelRows, Known
  <2>10. ASSUME NEW p \in Panels, NEW m \in Addresses, EndAddress(p, m) PROVE MTypeOK'
      <3>1. /\ panel[p] \in PanelRows /\ panel[p].kind = "address"
            /\ UNCHANGED <<members, channel, nonces, reuse, inbox, proved>>
            /\ panel' = [panel EXCEPT ![p] = Blank]
        BY <1>2, <2>10 DEF EndAddress, Releases, MTypeOK
      <3>2. panel[p].user \in Staff /\ staff[panel[p].user] \in Accounts
        BY <1>2, <3>1, MailboxAssumption DEF PanelRows, MTypeOK, Known
      <3>3. [staff[panel[p].user] EXCEPT !.email = m, !.verified = FALSE, !.required = TRUE] \in Accounts
        BY <3>2 DEF Accounts
      <3>4. staff' = [staff EXCEPT ![panel[p].user] =
                         [staff[panel[p].user] EXCEPT !.email = m, !.verified = FALSE, !.required = TRUE]]
        BY <1>2, <2>10, <3>2 DEF EndAddress, MTypeOK
      <3>5. mails' \subseteq Mails
        BY <1>2, <2>10, <3>2 DEF EndAddress, MayQueue, Letter, Mails, MTypeOK
      <3>. QED
        BY <1>2, <3>1, <3>2, <3>3, <3>4, <3>5, MailboxAssumption DEF MTypeOK, Known
  <2>11. ASSUME NEW p \in Panels, NEW u \in Staff, BeginSettings(p, u) PROVE MTypeOK'
    BY <1>2, <2>11, MailboxAssumption DEF BeginSettings, MTypeOK, Holds, PanelRows, Known
  <2>12. ASSUME NEW p \in Panels, ResendLink(p) PROVE MTypeOK'
    BY <1>2, <2>12, MailboxAssumption DEF ResendLink, MTypeOK, Releases, AskForLink, MayQueue, Letter, Mails, PanelRows, ChannelRows, Known
  <2>13. ASSUME NEW p \in Panels, NEW m \in Addresses \cup {Blank}, NEW on \in BOOLEAN, SaveSettings(p, m, on) PROVE MTypeOK'
    BY <1>2, <2>13, MailboxAssumption DEF SaveSettings, MTypeOK, Releases, Applied, AskForLink, MayQueue, Letter, Mails, PanelRows, ChannelRows, Known
  <2>14. ASSUME NEW p \in Panels, Abandon(p) PROVE MTypeOK'
    BY <1>2, <2>14, MailboxAssumption DEF Abandon, MTypeOK, Known
  <2>15. ASSUME NEW u \in Staff, AskActivation(u) PROVE MTypeOK'
    BY <1>2, <2>15, MailboxAssumption DEF AskActivation, MTypeOK, Letter, Mails, Accounts, Known
  <2>16. ASSUME NEW u \in Staff, LookAtAccount(u) PROVE MTypeOK'
    BY <1>2, <2>16, MailboxAssumption DEF LookAtAccount, MTypeOK, Accounts, Known
  <2>17. ASSUME NEW u \in Staff, Reuse(u) PROVE MTypeOK'
    BY <1>2, <2>17, MailboxAssumption DEF Reuse, MTypeOK, ChannelRows, Known
  <2>18. ASSUME NEW u \in Staff, LoseReuse(u) PROVE MTypeOK'
    BY <1>2, <2>18, MailboxAssumption DEF LoseReuse, MTypeOK, Known
  <2>19. ASSUME NEW l \in inbox, VerifyAccount(l) PROVE MTypeOK'
      <3>1. l.who \in Staff /\ l.to \in Addresses /\ staff[l.who] \in Accounts
        BY <1>2, <2>19, MailboxAssumption DEF VerifyAccount, Opened, Known, MTypeOK, Mails
      <3>2. [staff[l.who] EXCEPT !.verified = TRUE, !.required = FALSE] \in Accounts
        BY <3>1 DEF Accounts
      <3>3. staff' = [staff EXCEPT ![l.who] = [staff[l.who] EXCEPT !.verified = TRUE, !.required = FALSE]]
        BY <1>2, <2>19, <3>1 DEF VerifyAccount, MTypeOK
      <3>4. /\ UNCHANGED <<members, channel, nonces, panel, mails, inbox>>
            /\ reuse' = [reuse EXCEPT ![l.who] = "due"] /\ proved' = proved \cup {l.to}
        BY <2>19 DEF VerifyAccount
      <3>. QED
        BY <1>2, <3>1, <3>2, <3>3, <3>4, MailboxAssumption DEF MTypeOK, Known
  <2>20. ASSUME NEW l \in inbox, VerifyChannel(l) PROVE MTypeOK'
      <3>1. /\ channel' = [channel EXCEPT !.verified = TRUE] /\ proved' = proved \cup {l.to}
            /\ UNCHANGED <<staff, members, nonces, panel, reuse, mails, inbox>>
        BY <2>20 DEF VerifyChannel
      <3>2. l.to \in Addresses
        BY <1>2 DEF MTypeOK, Mails
      <3>3. channel' \in ChannelRows
        BY <1>2, <3>1 DEF MTypeOK, ChannelRows
      <3>. QED
        BY <1>2, <3>1, <3>2, <3>3 DEF MTypeOK, Known
  <2>21. ASSUME NEW l \in mails, Deliver(l) PROVE MTypeOK'
    BY <1>2, <2>21, MailboxAssumption DEF Deliver, MTypeOK, Known
  <2>22. ASSUME QueueNotice PROVE MTypeOK'
    BY <1>2, <2>22, MailboxAssumption DEF QueueNotice, MTypeOK, Letter, Mails, ChannelRows, Known
  <2>23. ASSUME NEW u \in Staff, ToggleMembership(u) PROVE MTypeOK'
    BY <1>2, <2>23, MailboxAssumption DEF ToggleMembership, MTypeOK, Known
  <2>24. CASE UNCHANGED mailvars
    BY <1>2, <2>24 DEF mailvars, MTypeOK, Known
  <2>. QED
    BY <1>2, <2>1, <2>2, <2>3, <2>4, <2>5, <2>6, <2>7, <2>8, <2>9, <2>10, <2>11, <2>12, <2>13, <2>14, <2>15, <2>16, <2>17, <2>18, <2>19, <2>20, <2>21, <2>22, <2>23, <2>24 DEF MNext, Platform, AccountSteps, SettingsSteps, Afterwards
<1>. QED
  BY <1>1, <1>2, PTL DEF MSpec

-----------------------------------------------------------------------------
(* What a request read and may save later, and what was read of an account to *)
(* be reused for the channel, was already proved when it was read. *)
HeldRowsAreProved ==
    /\ \A p \in Panels :
          /\ panel[p] # Blank /\ panel[p].kind \in {"edit", "settings", "password"} =>
                (panel[p].row.verified => panel[p].row.email \in proved)
          /\ panel[p] # Blank /\ panel[p].kind = "activate" => panel[p].row.email \in proved
    /\ \A u \in Staff : reuse[u] \in Addresses => reuse[u] \in proved

ProvedInv == MTypeOK /\ MailboxesAreProved /\ HeldRowsAreProved

(* Business and User are written by requests that read them earlier, so the *)
(* invariant has to speak of what those requests still hold. *)
LEMMA ProvedStep ==
    ASSUME ProvedInv, MTypeOK', [MNext]_mailvars
    PROVE  MailboxesAreProved' /\ HeldRowsAreProved'
<1>. DEFINE Preserved == MailboxesAreProved' /\ HeldRowsAreProved'
<1>1. ASSUME NEW p \in Panels, NEW u \in Staff, NEW m \in Addresses, BeginCreate(p, u, m) PROVE Preserved
  BY <1>1, MailboxAssumption DEF BeginCreate, Holds, ProvedInv, MTypeOK, MailboxesAreProved, HeldRowsAreProved, Known
<1>2. ASSUME NEW p \in Panels, EndCreate(p) PROVE Preserved
  BY <1>2, MailboxAssumption DEF EndCreate, Releases, NewAccount, ProvedInv, MTypeOK, MailboxesAreProved, HeldRowsAreProved, Known
<1>3. ASSUME NEW p \in Panels, BeginEdit(p) PROVE Preserved
  BY <1>3, MailboxAssumption DEF BeginEdit, Holds, ProvedInv, MTypeOK, MailboxesAreProved, HeldRowsAreProved, Known
<1>4. ASSUME NEW p \in Panels, EndEdit(p) PROVE Preserved
  BY <1>4, MailboxAssumption DEF EndEdit, Releases, ProvedInv, MTypeOK, MailboxesAreProved, HeldRowsAreProved, Known
<1>5. ASSUME NEW p \in Panels, NEW l \in inbox, BeginActivation(p, l) PROVE Preserved
  BY <1>5, MailboxAssumption DEF BeginActivation, OpensAccount, Holds, ProvedInv, MTypeOK, MailboxesAreProved, HeldRowsAreProved, Known
<1>6. ASSUME NEW p \in Panels, EndActivation(p) PROVE Preserved
  BY <1>6, MailboxAssumption DEF EndActivation, Releases, PanelRows, Accounts, ProvedInv, MTypeOK, MailboxesAreProved, HeldRowsAreProved, Known
<1>7. ASSUME NEW p \in Panels, NEW u \in Staff, BeginPassword(p, u) PROVE Preserved
  BY <1>7, MailboxAssumption DEF BeginPassword, Opened, Holds, ProvedInv, MTypeOK, MailboxesAreProved, HeldRowsAreProved, Known
<1>8. ASSUME NEW p \in Panels, EndPassword(p) PROVE Preserved
  BY <1>8, MailboxAssumption DEF EndPassword, Releases, ProvedInv, MTypeOK, MailboxesAreProved, HeldRowsAreProved, Known
<1>9. ASSUME NEW p \in Panels, NEW u \in Staff, BeginAddress(p, u) PROVE Preserved
  BY <1>9, MailboxAssumption DEF BeginAddress, Holds, ProvedInv, MTypeOK, MailboxesAreProved, HeldRowsAreProved, Known
<1>10. ASSUME NEW p \in Panels, NEW m \in Addresses, EndAddress(p, m) PROVE Preserved
  BY <1>10, MailboxAssumption DEF EndAddress, Releases, Accounts, ProvedInv, MTypeOK, MailboxesAreProved, HeldRowsAreProved, Known
<1>11. ASSUME NEW p \in Panels, NEW u \in Staff, BeginSettings(p, u) PROVE Preserved
  BY <1>11, MailboxAssumption DEF BeginSettings, Holds, ProvedInv, MTypeOK, MailboxesAreProved, HeldRowsAreProved, Known
<1>12. ASSUME NEW p \in Panels, ResendLink(p) PROVE Preserved
  BY <1>12, MailboxAssumption DEF ResendLink, Releases, ProvedInv, MTypeOK, MailboxesAreProved, HeldRowsAreProved, Known
<1>13. ASSUME NEW p \in Panels, NEW m \in Addresses \cup {Blank}, NEW on \in BOOLEAN, SaveSettings(p, m, on) PROVE Preserved
  <2>1. /\ panel[p] # Blank /\ panel[p].kind = "settings"
        /\ panel' = [panel EXCEPT ![p] = Blank] /\ UNCHANGED <<staff, reuse, inbox, proved>>
        /\ channel' = Applied(panel[p].row, m, on)
    BY <1>13 DEF SaveSettings, Releases
  <2>2. panel[p].row.verified => panel[p].row.email \in proved
    BY <2>1 DEF ProvedInv, HeldRowsAreProved
  <2>3. Vouched(m) => m \in proved
    BY DEF Vouched, Opened, MTypeOK, ProvedInv, MailboxesAreProved
  <2>4. channel'.email = m /\ (channel'.verified => (m = panel[p].row.email /\ panel[p].row.verified) \/ Vouched(m))
    BY <2>1 DEF Applied
  <2>. QED
    BY <2>1, <2>2, <2>3, <2>4 DEF ProvedInv, MTypeOK, MailboxesAreProved, HeldRowsAreProved, Known
<1>14. ASSUME NEW p \in Panels, Abandon(p) PROVE Preserved
  BY <1>14, MailboxAssumption DEF Abandon, ProvedInv, MTypeOK, MailboxesAreProved, HeldRowsAreProved, Known
<1>15. ASSUME NEW u \in Staff, AskActivation(u) PROVE Preserved
  BY <1>15, MailboxAssumption DEF AskActivation, ProvedInv, MTypeOK, MailboxesAreProved, HeldRowsAreProved, Known
<1>16. ASSUME NEW u \in Staff, LookAtAccount(u) PROVE Preserved
  BY <1>16, MailboxAssumption DEF LookAtAccount, ProvedInv, MTypeOK, MailboxesAreProved, HeldRowsAreProved, Known
<1>17. ASSUME NEW u \in Staff, Reuse(u) PROVE Preserved
  BY <1>17, MailboxAssumption DEF Reuse, ChannelRows, ProvedInv, MTypeOK, MailboxesAreProved, HeldRowsAreProved, Known
<1>18. ASSUME NEW u \in Staff, LoseReuse(u) PROVE Preserved
  BY <1>18, MailboxAssumption DEF LoseReuse, ProvedInv, MTypeOK, MailboxesAreProved, HeldRowsAreProved, Known
<1>19. ASSUME NEW l \in inbox, VerifyAccount(l) PROVE Preserved
  BY <1>19, MailboxAssumption DEF VerifyAccount, Opened, Accounts, ProvedInv, MTypeOK, MailboxesAreProved, HeldRowsAreProved, Known
<1>20. ASSUME NEW l \in inbox, VerifyChannel(l) PROVE Preserved
  BY <1>20, MailboxAssumption DEF VerifyChannel, FitsChannel, ChannelRows, ProvedInv, MTypeOK, MailboxesAreProved, HeldRowsAreProved, Known
<1>21. ASSUME NEW l \in mails, Deliver(l) PROVE Preserved
  BY <1>21, MailboxAssumption DEF Deliver, StillStands, ProvedInv, MTypeOK, MailboxesAreProved, HeldRowsAreProved, Known
<1>22. ASSUME QueueNotice PROVE Preserved
  BY <1>22, MailboxAssumption DEF QueueNotice, ProvedInv, MTypeOK, MailboxesAreProved, HeldRowsAreProved, Known
<1>23. ASSUME NEW u \in Staff, ToggleMembership(u) PROVE Preserved
  BY <1>23, MailboxAssumption DEF ToggleMembership, ProvedInv, MTypeOK, MailboxesAreProved, HeldRowsAreProved, Known
<1>24. CASE UNCHANGED mailvars
  BY <1>24 DEF mailvars, ProvedInv, MailboxesAreProved, HeldRowsAreProved, Known
<1>. QED
  BY <1>1, <1>2, <1>3, <1>4, <1>5, <1>6, <1>7, <1>8, <1>9, <1>10, <1>11, <1>12, <1>13, <1>14, <1>15, <1>16, <1>17, <1>18, <1>19, <1>20, <1>21, <1>22, <1>23, <1>24 DEF MNext, Platform, AccountSteps, SettingsSteps, Afterwards

(* MailboxesAreProved for every value of the constants: no late save of a whole row, no *)
(* account that vouches and no address that goes and comes back makes a mailbox count as *)
(* verified, or get a notice, before one of its own links came back. *)
THEOREM OnlyProvedMailboxesCount == MSpec => []MailboxesAreProved
<1>1. MInit => MailboxesAreProved /\ HeldRowsAreProved
  BY MailboxAssumption DEF MInit, MailboxesAreProved, HeldRowsAreProved, Known, OldAccount, NewAccount, Proposed
<1>2. ProvedInv /\ MTypeOK' /\ [MNext]_mailvars => MailboxesAreProved' /\ HeldRowsAreProved'
  BY ProvedStep
<1>. QED
  BY <1>1, <1>2, MailboxTypes, PTL DEF MSpec, ProvedInv

-----------------------------------------------------------------------------
(* The platform *)

(* Side by side, each component does what it does alone, or nothing. *)
LEMMA PlatformSteps ==
    ASSUME [MCNext]_mcvars
    PROVE  [DNext]_demovars /\ [TNext]_throttlevars /\ [LNext]_legalvars /\ [MNext]_mailvars
<1>1. CASE UNCHANGED mcvars
  BY <1>1 DEF mcvars
<1>2. CASE Demo(DNext)
  BY <1>2 DEF Demo
<1>3. ASSUME Throttle(SignIns \/ Passing) \/ Throttle(Claims \/ Passing)
      PROVE  TNext /\ UNCHANGED <<demovars, legalvars, mailvars>>
  BY <1>3 DEF Throttle, SignIns, Claims, Passing, TNext
<1>4. ASSUME Legal(BusinessSteps) \/ Legal(CardSteps)
      PROVE  LNext /\ UNCHANGED <<demovars, throttlevars, mailvars>>
  <2>1. CustomerRules => AtTheBusiness
    BY DEF CustomerRules, AtTheBusiness, Kinds
  <2>2. BusinessSteps \/ CardSteps => LNext
    BY <2>1 DEF BusinessSteps, CardSteps, LNext
  <2>. QED
    BY <1>4, <2>2 DEF Legal
<1>5. ASSUME Mail(OwnAccounts) \/ Mail(NoticeSteps) \/ Mail(FirstAccounts)
      PROVE  MNext /\ UNCHANGED <<demovars, throttlevars, legalvars>>
  <2>1. OwnAccounts => MNext
    BY DEF OwnAccounts, MNext
  <2>2. NoticeSteps => MNext
    BY DEF NoticeSteps, MNext, Platform, AccountSteps
  <2>3. FirstAccounts => MNext
    BY PlatformAssumption DEF FirstAccounts, MNext, Platform, AccountSteps, SettingsSteps
  <2>. QED
    BY <1>5, <2>1, <2>2, <2>3 DEF Mail
<1>. QED
  BY <1>1, <1>2, <1>3, <1>4, <1>5 DEF MCNext

(* The platform's behaviours are behaviours of each of its four components, *)
(* so that what the runs of the platform check holds for every value of the *)
(* constants: this one of the shape of the rows.                            *)
THEOREM PlatformFollowsItsComponents == MCSpec => DSpec /\ TSpec /\ LSpec /\ MSpec
<1>1. MCInit => DInit /\ TInit /\ LInit /\ MInit
  BY DEF MCInit
<1>2. [MCNext]_mcvars => [DNext]_demovars /\ [TNext]_throttlevars /\ [LNext]_legalvars /\ [MNext]_mailvars
  BY PlatformSteps
<1>. QED
  BY <1>1, <1>2, PTL DEF MCSpec, DSpec, TSpec, LSpec, MSpec

(* Whichever of the four is at work, no row of any loses its shape. *)
THEOREM PlatformTypes == MCSpec => []PlatformTypeOK
<1>1. DTypeOK /\ TTypeOK /\ LTypeOK /\ MTypeOK => PlatformTypeOK
  BY DEF PlatformTypeOK
<1>. QED
  BY <1>1, PlatformFollowsItsComponents, DemoTypes, CountersStayTyped, LegalTypes, MailboxTypes, PTL
=============================================================================
