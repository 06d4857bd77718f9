------------------------------ MODULE ClientGrants ------------------------------
(***************************************************************************)
(* Who may book for whom: authorized contacts of a card, the grants that   *)
(* let an online account book for it, and the booking itself, on top of    *)
(* the cards and accounts of ClientAccounts.                               *)
(*                                                                         *)
(* The panel reads a contact in one statement, and saves the whole row or  *)
(* two columns of it later without a lock: what it read waits in `desk'.   *)
(* Merging and pausing cards move and cut contacts and grants in their own *)
(* transactions.  A booking page keeps the account as the request read it  *)
(* (`page') until the booking transaction locks and reads it again.        *)
(***************************************************************************)
EXTENDS ClientAccounts

CONSTANT Contacts

VARIABLES
    contacts,
    grants,          \* (account, card): the row, unique for the pair
    desk,            \* a panel request on a contact, between its read and its save
    page,            \* browser: the account and password its booking request read
    booked           \* history: the last booking, with the account and the card

links == <<contacts, grants>>
gvars == <<vars, links, desk, page, booked>>

ContactRows == [owner : Cards, linked : Cards \cup {Nil}, active : BOOLEAN, primary : BOOLEAN]
GrantRows   == [contact : Contacts \cup {Nil}, active : BOOLEAN]

ASSUME ContactAssumption == Nil \notin ContactRows /\ Gone \notin ContactRows

IsContact(c)  == IsRow(contacts[c])
Granted(a, k) == grants[<<a, k>>] # Nil /\ grants[<<a, k>>].active

\* unique_linked_authorized_client_per_file, unique_primary_active_contact_per_client and clean
ContactFits(cs, c) ==
    LET row == cs[c] IN
    /\ row.linked # row.owner
    /\ \A d \in Contacts \ {c} :
          IsRow(cs[d]) /\ cs[d].owner = row.owner =>
              /\ row.linked # Nil => cs[d].linked # row.linked
              /\ ~(row.active /\ row.primary /\ cs[d].active /\ cs[d].primary)

GInit ==
    /\ Init
    /\ contacts = [c \in Contacts |-> Nil]
    /\ grants = [p \in Accounts \X Cards |-> Nil]
    /\ desk = Nil
    /\ page = [b \in Browsers |-> Nil]
    /\ booked = Nil

-----------------------------------------------------------------------------
(* Saving a contact *)

\* Creating or editing: the form is valid for what it read.
ReadForm(c, k, l, primary, online) ==
    /\ contacts[c] = Nil \/ (IsContact(c) /\ contacts[c].owner = k)
    /\ l # Nil => /\ l \in OpenCards \ {k} /\ cards[l].active
                  /\ \A d \in Contacts \ {c} :
                        IsContact(d) /\ contacts[d].owner = k => contacts[d].linked # l
    /\ online => l # Nil /\ \E a \in Accounts : HasRow(a) /\ accounts[a].card = l /\ accounts[a].active
    /\ desk' = [op |-> "save", id |-> c, online |-> online,
                row |-> [owner |-> k, linked |-> l, primary |-> primary,
                         active |-> IF IsContact(c) THEN contacts[c].active ELSE TRUE]]

OpenContactForm ==
    /\ desk = Nil
    /\ \E c \in Contacts, k \in OpenCards, l \in Cards \cup {Nil}, primary, online \in BOOLEAN :
          ReadForm(c, k, l, primary, online)
    /\ UNCHANGED <<vars, links, page, booked>>

\* The grants of a contact are cut.
CutGrants(gs, cut) ==
    [p \in DOMAIN gs |-> IF gs[p] # Nil /\ gs[p].contact \in cut THEN [gs[p] EXCEPT !.active = FALSE] ELSE gs[p]]

(***************************************************************************)
(* save_authorized_contact: the other primary contacts are demoted, the    *)
(* whole row is written as read but for the form's fields, every grant of  *)
(* the contact is cut and, if asked, that of the linked card's account is  *)
(* made or taken over.  The foreign keys refuse a card that was purged.    *)
(***************************************************************************)
SaveContact ==
    /\ desk # Nil /\ desk.op = "save"
    /\ LET c   == desk.id
           row == desk.row
           saved == [d \in Contacts |->
                       IF d = c THEN row
                       ELSE IF /\ row.primary /\ IsContact(d) /\ contacts[d].owner = row.owner
                               /\ contacts[d].active
                            THEN [contacts[d] EXCEPT !.primary = FALSE]
                       ELSE contacts[d]]
           holders == {a \in Accounts : HasRow(a) /\ accounts[a].card = row.linked /\ accounts[a].active}
       IN  /\ IsRow(cards[row.owner]) /\ (row.linked # Nil => IsRow(cards[row.linked]))
           /\ ContactFits(saved, c)
           /\ contacts' = saved
           /\ desk.online => holders # {}
           /\ grants' = [p \in DOMAIN grants |->
                           IF desk.online /\ p[1] \in holders /\ p[2] = row.owner
                           THEN [contact |-> c, active |-> TRUE] ELSE CutGrants(grants, {c})[p]]
           /\ cards' = [k \in Cards |-> IF k \in {row.owner, row.linked} THEN [cards[k] EXCEPT !.busy = TRUE]
                                        ELSE cards[k]]
    /\ desk' = Nil
    /\ UNCHANGED <<accepting, accounts, invitations, post, browsers, staff, fresh, proven, page, booked>>

\* ProfessionalClientQuickForm.save: a card and its authorized person in one transaction, read under locks.
SaveWithPerson(k, w, c, l, online) ==
    LET holders == {a \in Accounts : HasRow(a) /\ accounts[a].card = l /\ accounts[a].active}
    IN  /\ cards[k] = Nil /\ contacts[c] = Nil /\ cards[l].active
        /\ ~SameIdentity(cards, k, w)
        /\ online => holders # {}
        /\ cards' = [cards EXCEPT ![l].busy = TRUE,
                        ![k] = [source |-> "professional", active |-> TRUE, merged |-> Nil,
                                who |-> w, email |-> NoEmail, busy |-> TRUE, dismissed |-> Nil]]
        /\ contacts' = [contacts EXCEPT ![c] = [owner |-> k, linked |-> l, active |-> TRUE, primary |-> TRUE]]
        /\ grants' = [p \in DOMAIN grants |-> IF online /\ p[1] \in holders /\ p[2] = k
                                              THEN [contact |-> c, active |-> TRUE] ELSE grants[p]]

QuickCreate ==
    /\ \E k \in Cards, w \in People, c \in Contacts, l \in OpenCards, online \in BOOLEAN :
          SaveWithPerson(k, w, c, l, online)
    /\ UNCHANGED <<accepting, accounts, invitations, post, browsers, staff, fresh, proven, desk, page, booked>>

-----------------------------------------------------------------------------
(* Switching a contact *)

ReadContact ==
    /\ desk = Nil
    /\ \E c \in Contacts, op \in {"active", "online"} :
          /\ IsContact(c) /\ contacts[c].owner \in OpenCards
          /\ op = "online" => contacts[c].active /\ contacts[c].linked # Nil
          /\ desk' = [op |-> op, id |-> c, online |-> FALSE, row |-> contacts[c]]
    /\ UNCHANGED <<vars, links, page, booked>>

\* set_authorized_contact_active: two columns, the primary one given up if taken.
ToggleContact ==
    /\ desk # Nil /\ desk.op = "active"
    /\ LET c == desk.id
           taken == \E d \in Contacts \ {c} : /\ IsContact(d) /\ contacts[d].owner = desk.row.owner
                                              /\ contacts[d].active /\ contacts[d].primary
       IN  /\ desk.row.linked # Nil => cards[desk.row.linked].active
           /\ contacts' = [contacts EXCEPT
                             ![c].active = ~desk.row.active,
                             ![c].primary = desk.row.primary /\ (desk.row.active \/ ~taken)]
           /\ ContactFits(contacts', c)
    /\ desk' = Nil
    /\ UNCHANGED <<vars, grants, page, booked>>

\* toggle_contact_online_booking: the grant of the linked card's account, made or switched.
ToggleOnline ==
    /\ desk # Nil /\ desk.op = "online"
    /\ \E a \in Accounts :
          LET p == <<a, desk.row.owner>> IN
          /\ HasRow(a) /\ accounts[a].card = desk.row.linked /\ accounts[a].active /\ Card(a).active
          /\ grants' = [grants EXCEPT ![p] = [contact |-> desk.id,
                                              active |-> IF grants[p] = Nil THEN TRUE ELSE ~grants[p].active]]
    /\ desk' = Nil
    /\ UNCHANGED <<vars, contacts, page, booked>>

AbandonDesk ==
    /\ desk # Nil /\ desk' = Nil
    /\ UNCHANGED <<vars, links, page, booked>>

-----------------------------------------------------------------------------
(* What steps on cards and accounts do to contacts and grants *)

\* ensure_self_booking_grant for new accounts, the cascade of what is purged, nothing else.
SelfGrants ==
    grants' = [p \in DOMAIN grants |->
                 IF accounts'[p[1]] = Gone \/ cards'[p[2]] = Gone THEN Nil
                 ELSE IF accounts[p[1]] = Nil /\ IsRow(accounts'[p[1]]) /\ accounts'[p[1]].card = p[2]
                 THEN [contact |-> Nil, active |-> TRUE]
                 ELSE grants[p]]

\* set_professional_client_active: pausing a card cuts the contacts that link it, and their grants.
PauseCuts ==
    LET k   == staff.id
        cut == {c \in Contacts : IsContact(c) /\ contacts[c].linked = k /\ contacts[c].active}
    IN  IF staff.to THEN UNCHANGED links
        ELSE /\ contacts' = [c \in Contacts |->
                               IF c \in cut THEN [contacts[c] EXCEPT !.active = FALSE, !.primary = FALSE]
                               ELSE contacts[c]]
             /\ grants' = CutGrants(grants, cut)

Owned(k)  == {c \in Contacts : IsContact(c) /\ contacts[c].owner = k}
Linking(k) == {c \in Contacts : IsContact(c) /\ contacts[c].linked = k}

\* _validate_client_merge_relations and the check of shared persons
Mergeable(p, o) ==
    /\ \A c \in Owned(o) :
          /\ contacts[c].linked # p
          /\ contacts[c].linked # Nil => \A d \in Owned(p) : contacts[d].linked # contacts[c].linked
    /\ ~ \E c \in Owned(o), d \in Owned(p) :
            contacts[c].active /\ contacts[c].primary /\ contacts[d].active /\ contacts[d].primary
    /\ \A c \in Linking(o) :
          /\ contacts[c].owner # p
          /\ \A d \in Linking(p) : contacts[d].owner # contacts[c].owner

(***************************************************************************)
(* merge_client_records on contacts and grants.  A grant that the account  *)
(* already had on the kept card stays with ITS contact, and is switched on *)
(* when the one that goes was on.                                          *)
(***************************************************************************)
MergeMoves(p, o, a) ==
    /\ Mergeable(p, o)
    /\ \A c \in Owned(o) : contacts[c].linked # Nil => cards[contacts[c].linked].active
    /\ contacts' = [c \in Contacts |->
                      IF c \in Owned(o) THEN [contacts[c] EXCEPT !.owner = p]
                      ELSE IF c \in Linking(o) THEN [contacts[c] EXCEPT !.linked = p]
                      ELSE contacts[c]]
    /\ grants' = [q \in DOMAIN grants |->
                    LET from  == grants[<<q[1], o>>]
                        kept  == IF grants[q] # Nil THEN grants[q] ELSE from
                        both  == IF kept = Nil THEN Nil
                                 ELSE [kept EXCEPT !.active = kept.active \/ (from # Nil /\ from.active)]
                    IN  IF q[2] = o THEN Nil
                        ELSE IF q[2] # p THEN grants[q]
                        ELSE IF q[1] # a THEN both
                        ELSE [contact |-> IF kept = Nil THEN Nil ELSE kept.contact, active |-> TRUE]]

-----------------------------------------------------------------------------
(* Booking for somebody *)

\* get_bookable_clients: what the page of an account offers
OfferedCards(a) ==
    {k \in OpenCards :
        /\ cards[k].active
        /\ \/ k = accounts[a].card
           \/ /\ Granted(a, k)
              /\ grants[<<a, k>>].contact # Nil => contacts[grants[<<a, k>>].contact].active}

OpenPage(b) ==
    /\ accepting /\ Accepted(b)
    /\ page' = [page EXCEPT ![b] = [account |-> session[b].account,
                                    password |-> accounts[session[b].account].password]]
    /\ UNCHANGED <<vars, links, desk, booked>>

\* Variant: the grant is enough, its contact is not looked at again.
LockedIdentityByGrant(read, k) ==
    /\ HasRow(read.account)
    /\ Card(read.account).active /\ k \in OpenCards /\ cards[k].active
    /\ k = accounts[read.account].card \/ Granted(read.account, k)

(***************************************************************************)
(* _lock_public_booking_identity: card and account of the request, locked  *)
(* and read again, with the password it read; then the grant and contact.  *)
(***************************************************************************)
LockedIdentity(read, k) ==
    /\ HasRow(read.account)
    /\ LET a == accounts[read.account] IN
       /\ cards[a.card].active /\ a.active /\ a.verified /\ a.password = read.password
       /\ k \in OpenCards /\ cards[k].active
       /\ k # a.card =>
            /\ Granted(read.account, k)
            /\ LET c == grants[<<read.account, k>>].contact IN
               c # Nil => contacts[c].owner = k /\ contacts[c].active

BookOnline(b) ==
    /\ page[b] # Nil /\ accepting
    /\ \E k \in Cards :
          /\ LockedIdentity(page[b], k)
          /\ booked' = [account |-> page[b].account, password |-> page[b].password, card |-> k]
          /\ cards' = [cards EXCEPT ![k].busy = TRUE]
    /\ page' = [page EXCEPT ![b] = Nil]
    /\ UNCHANGED <<accepting, accounts, invitations, post, browsers, staff, fresh, proven, links, desk>>

ClosePage(b) ==
    /\ page[b] # Nil /\ page' = [page EXCEPT ![b] = Nil]
    /\ UNCHANGED <<vars, links, desk, booked>>

-----------------------------------------------------------------------------
OfAccounts == UNCHANGED <<contacts, desk, page, booked>> /\ SelfGrants

GRegistration == Registration /\ OfAccounts
GVisits       == Visits /\ OfAccounts
GPanel        == PanelRows /\ OfAccounts
GSwitchCard   == SaveCardToggle /\ PauseCuts /\ UNCHANGED <<desk, page, booked>>
GMerge        == /\ \E p, o \in Cards, a \in Accounts : Merge(p, o, a) /\ MergeMoves(p, o, a)
                 /\ UNCHANGED <<desk, page, booked>>

Permissions ==
    \/ OpenContactForm \/ SaveContact \/ QuickCreate
    \/ ReadContact \/ ToggleContact \/ ToggleOnline \/ AbandonDesk

OnlineBooking == \E b \in Browsers : OpenPage(b) \/ BookOnline(b) \/ ClosePage(b)

GNext ==
    \/ GRegistration \/ GVisits \/ GPanel \/ GSwitchCard \/ GMerge
    \/ (ToggleBusiness /\ OfAccounts)
    \/ Permissions \/ OnlineBooking

GSpec == GInit /\ [][GNext]_gvars

-----------------------------------------------------------------------------
(* Properties *)

\* Contacts and grants have their shape, and the database's constraints on contacts hold.
GTypeOK ==
    /\ TypeOK
    /\ \A c \in Contacts : IsContact(c) => contacts[c] \in ContactRows /\ ContactFits(contacts, c)
    /\ \A p \in Accounts \X Cards : grants[p] # Nil => grants[p] \in GrantRows

(***************************************************************************)
(* A booking commits only for a card which the account's own page would    *)
(* still offer at that moment, with the password the request was made      *)
(* with, whatever was paused, revoked, merged or reset since the page.     *)
(***************************************************************************)
BookedOnlyWhatIsOffered ==
    [][booked' # booked => /\ booked'.card \in OfferedCards(booked'.account)
                           /\ MayEnter(booked'.account)
                           /\ accounts[booked'.account].password = booked'.password]_gvars

(***************************************************************************)
(* An account is offered somebody else's card only while an active contact *)
(* of that card links the account's own card: "Person authorized to        *)
(* request appointments for another customer file".                        *)
(***************************************************************************)
BookableOnlyThroughItsContact ==
    \A a \in Accounts : HasRow(a) =>
        \A k \in OfferedCards(a) \ {accounts[a].card} :
            \E c \in Owned(k) : contacts[c].active /\ contacts[c].linked = accounts[a].card

=============================================================================
