----------------------------- MODULE LegalEvidence -----------------------------
(***************************************************************************)
(* The legal documents of one business: which versions are in force, who    *)
(* was shown what, who accepted or acknowledged it, and what that makes of  *)
(* the business and of its client cards.  The three documents a             *)
(* professional accepts change and are accepted together: they are one      *)
(* kind here.  Every flow holds the business row or the document rows until *)
(* it commits, so that a submission is one step.  The number of an event    *)
(* is the instant it carries.                                               *)
(***************************************************************************)
EXTENDS Naturals, Sequences

CONSTANTS
    Professionals,   \* members of the business
    Salon,           \* cards the professionals may open
    Online,          \* cards of public registrations; each also names its account
    Profiles,        \* identities of the responsible party
    Channels,        \* ways a client is informed at the salon
    None,
    MaxVersion,      \* bound on the versions of a document
    MaxPages         \* bound on the pages shown

Cards == Salon \cup Online
Kinds == {"professional", "customer"}

VARIABLES
    enabled,     \* Business.legal_compliance_enabled
    profile,     \* None or the BusinessLegalProfile
    inForce,     \* kind: the version in force, 0 when there is none
    pages,       \* the signed presentations; a receipt is an index of this sequence
    events,      \* LegalAcceptanceEvent and CustomerPrivacyEvidenceEvent
    accepted,    \* professional, version: None or the LegalAcceptance
    evidence,    \* CustomerPrivacyEvidence
    known,       \* the cards that exist
    merged,      \* card: None or the card it was merged into
    home,        \* account: its card
    verified     \* accounts with a verified address

legalvars == <<enabled, profile, inForce, pages, events, accepted, evidence, known, merged, home, verified>>
cardvars  == <<known, merged, home, verified>>

Versions == 1 .. MaxVersion
Scopes   == {"onboarding", "manual", "quick", "verification", "booking"}
Pages    == [scope : Scopes, by : Professionals \cup Online, card : Cards \cup {None},
             version : Versions, context : Profiles \cup {None}]
Events   == [receipt : 1 .. MaxPages, by : Professionals \cup Online, card : Cards \cup {None},
             channel : Channels \cup Scopes, version : Versions, context : Profiles \cup {None}]
EvidenceRows == [version : Versions, by : Professionals \cup Online, card : Cards, channel : Channels \cup Scopes,
             context : Profiles \cup {None}, at : 1 .. MaxPages]

\* A card is opened at the salon or comes with an account, and None is nothing that a row names.
ASSUME LegalAssumption ==
    /\ Salon \cap Online = {} /\ MaxVersion \in Nat \ {0} /\ MaxPages \in Nat
    /\ None \notin Profiles /\ None \notin Cards /\ None \notin [context : Profiles, at : 1 .. MaxPages]

LInit ==
    /\ enabled \in BOOLEAN /\ profile = None /\ inForce = [k \in Kinds |-> 1]
    /\ pages = <<>> /\ events = <<>> /\ evidence = {}
    /\ accepted = [u \in Professionals |-> [v \in Versions |-> None]]
    /\ known = Online /\ merged = [c \in Cards |-> None] /\ home = [a \in Online |-> a] /\ verified = {}

-----------------------------------------------------------------------------
\* business_legal_status: the latest acceptance of the version in force, by anyone
Acceptances == LET v == inForce["professional"] IN
    IF v = 0 THEN {} ELSE {accepted[u][v] : u \in {w \in Professionals : accepted[w][v] # None}}
Compliant == \/ ~enabled
             \/ /\ profile # None
                /\ \E a \in Acceptances : a.context = profile /\ \A b \in Acceptances : b.at <= a.at

\* customer_privacy_status: a card answers for the cards merged into it (variant: for itself)
RelatedAlone(c) == {c}
Related(c)      == {c} \cup {d \in Cards : merged[c] = None /\ merged[d] = c}
Informed(c) == \/ ~enabled
               \/ \E row \in evidence : /\ row.card \in Related(c)
                                        /\ row.version = inForce["customer"] /\ row.context = profile

-----------------------------------------------------------------------------
KindOf(scope) == IF scope = "onboarding" THEN "professional" ELSE "customer"

\* What a page of this scope says now.  The onboarding page is about the platform,
\* whose identity does not change; the others carry business_legal_snapshot.
PageNow(scope, by, card) ==
    [scope |-> scope, by |-> by, card |-> card, version |-> inForce[KindOf(scope)],
     context |-> IF scope = "onboarding" THEN None ELSE profile]

\* issue_legal_presentation
Show(scope, by, card) ==
    /\ Len(pages) < MaxPages /\ inForce[KindOf(scope)] # 0
    /\ pages' = Append(pages, PageNow(scope, by, card))
    /\ UNCHANGED <<enabled, profile, inForce, events, accepted, evidence, cardvars>>

\* Variant: the version in force is not looked at again.
ResolvesAnyVersion(r, scope, by, card) ==
    r \in DOMAIN pages /\ pages[r] = [PageNow(scope, by, card) EXCEPT !.version = pages[r].version]

\* resolve_legal_presentation
Resolves(r, scope, by, card) == r \in DOMAIN pages /\ pages[r] = PageNow(scope, by, card)

\* _event_values_match: a receipt that already has an event must bring the same values
\* (variant: it is enough that the event is there)
Earlier(e) == {t \in DOMAIN events : events[t].receipt = e.receipt}
EventIsThere(t, e) == events[t].receipt = e.receipt
EventMatches(t, e) == events[t] = e

\* _get_or_create_legal_acceptance_event, _get_or_create_customer_privacy_evidence_event
Log(e) ==
    /\ \A t \in Earlier(e) : EventMatches(t, e)
    /\ events' = IF Earlier(e) = {} THEN Append(events, e) ELSE events
Time(e) == IF Earlier(e) = {} THEN Len(events) + 1 ELSE CHOOSE t \in Earlier(e) : TRUE

Event(r, by, card, channel, context) ==
    [receipt |-> r, by |-> by, card |-> card, channel |-> channel, version |-> pages[r].version, context |-> context]
RowOf(e) == [version |-> e.version, by |-> e.by, card |-> e.card, channel |-> e.channel,
             context |-> e.context, at |-> Time(e)]

-----------------------------------------------------------------------------
\* professional_onboarding
Onboard(u) == Show("onboarding", u, None)

\* accept_professional_legal_documents: profile, events and the professional's acceptances.
AcceptDocuments(u, r, p) ==
    /\ Resolves(r, "onboarding", u, None)
    /\ LET e == Event(r, u, None, "onboarding", p) IN
       /\ Log(e) /\ profile' = p
       /\ accepted' = [accepted EXCEPT ![u][e.version] = [context |-> p, at |-> Time(e)]]
    /\ UNCHANGED <<enabled, inForce, pages, evidence, cardvars>>

\* BusinessLegalProfileAdmin
EditProfile(p) ==
    /\ profile # p /\ profile' = p
    /\ UNCHANGED <<enabled, inForce, pages, events, accepted, evidence, cardvars>>

\* A business of before the legal controls is brought under them, for good.
RequireCompliance ==
    /\ ~enabled /\ enabled' = TRUE
    /\ UNCHANGED <<profile, inForce, pages, events, accepted, evidence, cardvars>>

\* A release publishes a new version, or its reversal puts the one before in force.
Publish(k) ==
    /\ inForce[k] < MaxVersion /\ inForce' = [inForce EXCEPT ![k] = @ + 1]
    /\ UNCHANGED <<enabled, profile, pages, events, accepted, evidence, cardvars>>
Unpublish(k) ==
    /\ inForce[k] > 0 /\ inForce' = [inForce EXCEPT ![k] = @ - 1]
    /\ UNCHANGED <<enabled, profile, pages, events, accepted, evidence, cardvars>>

-----------------------------------------------------------------------------
\* professional_client_privacy_record: the card is read before the business is locked, so
\* that it may have been merged meanwhile; record_customer_privacy_information.
OpenCard(u, c) == enabled /\ c \in known /\ merged[c] = None /\ Show("manual", u, c)
RecordInformation(u, c, r, channel) ==
    /\ enabled /\ Resolves(r, "manual", u, c)
    /\ LET e == Event(r, u, c, channel, profile) IN Log(e) /\ evidence' = evidence \cup {RowOf(e)}
    /\ UNCHANGED <<enabled, profile, inForce, pages, accepted, cardvars>>

\* The quick form opens a card, or finds it, and informs its client.  A receipt used before
\* answers with the same card or is refused, and changes nothing.
OpenQuickForm(u) == enabled /\ Show("quick", u, None)
SaveQuickForm(u, c, r, channel) ==
    /\ enabled /\ Resolves(r, "quick", u, None)
    /\ LET e == Event(r, u, c, channel, profile) IN
       Earlier(e) = {} /\ Log(e) /\ evidence' = evidence \cup {RowOf(e)}
    /\ known' = known \cup {c}
    /\ UNCHANGED <<enabled, profile, inForce, pages, accepted, merged, home, verified>>
SaveWithoutEvidence(c) ==
    /\ ~enabled /\ c \notin known /\ known' = known \cup {c}
    /\ UNCHANGED <<enabled, profile, inForce, pages, events, accepted, evidence, merged, home, verified>>

\* acknowledge_customer_privacy: one row per document, card, account and channel
Acknowledge(a, r, scope) ==
    LET e == Event(r, a, home[a], scope, profile)
        Same(row) == [row EXCEPT !.context = e.context, !.at = Time(e)] = RowOf(e)
    IN  Log(e) /\ evidence' = {row \in evidence : ~Same(row)} \cup {RowOf(e)}

\* client_email_verify
OpenVerification(a) == enabled /\ a \notin verified /\ Show("verification", a, None)
Verify(a, r) ==
    /\ enabled /\ a \notin verified /\ Resolves(r, "verification", a, None)
    /\ Acknowledge(a, r, "verification") /\ verified' = verified \cup {a}
    /\ UNCHANGED <<enabled, profile, inForce, pages, accepted, known, merged, home>>
VerifyWithoutEvidence(a) ==
    /\ ~enabled /\ a \notin verified /\ verified' = verified \cup {a}
    /\ UNCHANGED <<enabled, profile, inForce, pages, events, accepted, evidence, known, merged, home>>

\* _confirm_public_booking_draft, when the account has not read the policy in force.  A
\* booking for another card needs that card's client informed already.
OpenConfirmation(a) == a \in verified /\ ~Informed(home[a]) /\ Show("booking", a, None)
Confirm(a, c, r) ==
    /\ a \in verified /\ c \in known /\ merged[c] = None
    /\ c # home[a] => Informed(c)
    /\ ~Informed(home[a]) /\ Resolves(r, "booking", a, None)
    /\ Acknowledge(a, r, "booking")
    /\ UNCHANGED <<enabled, profile, inForce, pages, accepted, cardvars>>

\* merge_client_records, as far as it concerns the evidence
Merge(p, o) ==
    /\ p \in Salon \cap known /\ o \in verified /\ home[o] = o /\ \A a \in Online : home[a] # p
    /\ merged' = [merged EXCEPT ![o] = p] /\ home' = [home EXCEPT ![o] = p]
    /\ UNCHANGED <<enabled, profile, inForce, pages, events, accepted, evidence, known, verified>>

-----------------------------------------------------------------------------
AtTheBusiness ==
    \/ RequireCompliance
    \/ \E p \in Profiles : EditProfile(p)
    \/ \E k \in Kinds : Publish(k) \/ Unpublish(k)
    \/ \E u \in Professionals : Onboard(u) \/ \E r \in DOMAIN pages, p \in Profiles : AcceptDocuments(u, r, p)

AtTheSalon == \E u \in Professionals, c \in Cards :
    \/ OpenCard(u, c)
    \/ \E r \in DOMAIN pages, channel \in Channels :
          \/ RecordInformation(u, c, r, channel)
          \/ c \in Salon /\ SaveQuickForm(u, c, r, channel)

Clients ==
    \/ \E u \in Professionals : OpenQuickForm(u)
    \/ \E c \in Salon : SaveWithoutEvidence(c) \/ \E o \in Online : Merge(c, o)
    \/ \E a \in Online : OpenVerification(a) \/ VerifyWithoutEvidence(a) \/ OpenConfirmation(a)
    \/ \E a \in Online, r \in DOMAIN pages : Verify(a, r) \/ \E c \in Cards : Confirm(a, c, r)

LNext == AtTheBusiness \/ AtTheSalon \/ Clients

LSpec == LInit /\ [][LNext]_legalvars

-----------------------------------------------------------------------------
\* The rows, cards and versions have the shape the models give them.
LTypeOK ==
    /\ enabled \in BOOLEAN /\ profile \in Profiles \cup {None} /\ inForce \in [Kinds -> 0 .. MaxVersion]
    /\ \A r \in DOMAIN pages : pages[r] \in Pages
    /\ \A t \in DOMAIN events : events[t] \in Events
    /\ evidence \subseteq EvidenceRows /\ known \subseteq Cards /\ verified \subseteq Online
    /\ merged \in [Cards -> Salon \cup {None}] /\ home \in [Online -> Cards]

\* A receipt is recorded once, for the person it was shown to and with the version and the
\* identity it showed; every row the panels read repeats exactly one such event, and no
\* event is read through two rows (the append-only events against their projections).
EvidenceTellsTheTruth ==
    /\ \A t \in DOMAIN events : LET e == events[t] IN LET page == pages[e.receipt] IN
          /\ Earlier(e) = {t}
          /\ page.by = e.by /\ page.version = e.version /\ page.card \in {None, e.card}
          /\ page.scope # "onboarding" => page.context = e.context
    /\ \A row \in evidence : RowOf(events[row.at]) = row
    /\ \A u \in Professionals, v \in Versions : LET a == accepted[u][v] IN a # None =>
          LET e == events[a.at] IN e.by = u /\ e.version = v /\ e.context = a.context /\ e.channel = "onboarding"

SameRules == UNCHANGED <<enabled, profile, inForce>>
NewEvent  == Len(events') = Len(events) + 1
Kept(c)   == IF merged[c] = None THEN c ELSE merged[c]
LatestCounts == LET e == events[Len(events)] IN IF e.card = None THEN Compliant ELSE Informed(Kept(e.card))

\* A client who is informed stays informed, and a business that is up to date stays so,
\* until the documents, the identity or the requirement change; a card that takes over
\* an informed one is informed; and whoever has just recorded the page shown is up to date
\* (customer_privacy_status and business_legal_status against everything that writes rows).
InformedStaysInformed == [][
    /\ SameRules => \A c \in Cards : Informed(c) => Informed(c)'
    /\ \A p \in Salon, o \in Online : Merge(p, o) /\ Informed(o) => Informed(p)'
    /\ NewEvent => LatestCounts']_legalvars

\* Posting an onboarding receipt again, with the data it was posted with, changes nothing
\* (the test calls it idempotent).
RepeatingIsIdempotent == [][
    \A u \in Professionals, r \in DOMAIN pages, p \in Profiles :
        AcceptDocuments(u, r, p) /\ UNCHANGED events => (Compliant' <=> Compliant)]_legalvars
=============================================================================
