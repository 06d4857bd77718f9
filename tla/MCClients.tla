-------------------------------- MODULE MCClients --------------------------------
(***************************************************************************)
(* Model checking ClientGrants over ClientAccounts.  One start and one set *)
(* of steps per question: `focus' never changes, so the state space is the *)
(* sum of the five, not their product.                                     *)
(***************************************************************************)
EXTENDS ClientGrants

CONSTANTS pr, o, x, a1, a2, i1, i2, b1, b2, e1, e2, w, c1, c2

VARIABLE focus
mcvars == <<gvars, focus>>

Focused(f, step) == focus = f /\ step /\ UNCHANGED focus

\* A registered client: its letter arrived and was followed, it logged in once.
Verification(a, e) == [kind |-> "verification", account |-> a, email |-> e, password |-> 0]
OnlineCard(e)   == [source |-> "other", active |-> TRUE, merged |-> Nil, who |-> w, email |-> e, busy |-> TRUE,
                    dismissed |-> Nil]
PanelCard(e)    == [source |-> "professional", active |-> TRUE, merged |-> Nil, who |-> w, email |-> e, busy |-> FALSE,
                    dismissed |-> Nil]
Verified(k, e)  == [card |-> k, email |-> e, verified |-> TRUE, active |-> TRUE, pending |-> FALSE,
                    expired |-> FALSE, password |-> 1, used |-> TRUE]
Nobody == [a \in Accounts |-> Nil]

\* The rows other than cards, accounts and what reached the mailboxes start empty.
Start(cs, as, letters, next) ==
    /\ accepting = TRUE /\ cards = cs /\ accounts = as
    /\ invitations = [i \in Invites |-> Nil]
    /\ mails = {[letter |-> l, status |-> "closed"] : l \in letters} /\ inbox = letters
    /\ claim = [b \in Browsers |-> Nil] /\ entering = [b \in Browsers |-> Nil]
    /\ session = [b \in Browsers |-> Nil] /\ staff = Nil
    /\ fresh = next
    /\ proven = {l.account : l \in letters}
    /\ desk = Nil /\ booked = Nil /\ page = [b \in Browsers |-> Nil]

Own(as) == [q \in Accounts \X Cards |->
              IF as[q[1]] # Nil /\ as[q[1]].card = q[2] THEN [contact |-> Nil, active |-> TRUE] ELSE Nil]

OnlyOnline == [k \in Cards |-> IF k = o THEN OnlineCard(e1) ELSE Gone]
TwoOnline  == [k \in Cards |-> IF k = pr THEN PanelCard(e1) ELSE OnlineCard(IF k = o THEN e1 ELSE e2)]
OfO        == [Nobody EXCEPT ![a1] = Verified(o, e1)]
OfBoth     == [OfO EXCEPT ![a2] = Verified(x, e2)]

InitRegistration ==
    /\ focus = "registration"
    /\ Start([k \in Cards |-> IF k = pr THEN Gone ELSE Nil], Nobody, {}, 0)
InitSessions ==
    /\ focus = "sessions"
    /\ Start(OnlyOnline, OfO, {Verification(a1, e1)}, 2)
InitInvitations ==
    /\ focus = "invitations"
    /\ Start([TwoOnline EXCEPT ![x] = Gone], OfO, {Verification(a1, e1)}, 3)
InitPermissions ==
    /\ focus = "permissions"
    /\ Start(TwoOnline, OfBoth, {Verification(a1, e1), Verification(a2, e2)}, 3)
InitQuick ==
    /\ focus = "quick"
    /\ Start([k \in Cards |-> IF k = o THEN OnlineCard(e1) ELSE IF k = pr THEN Nil ELSE Gone], OfO,
             {Verification(a1, e1), [Verification(a1, e1) EXCEPT !.kind = "reset", !.password = 1]}, 3)

MCInit ==
    /\ InitRegistration \/ InitSessions \/ InitInvitations \/ InitPermissions \/ InitQuick
    /\ contacts = [c \in Contacts |-> Nil] /\ grants = Own(accounts)

\* Two registrations, a1's of card o and address e1 first, then a2's of any address.
RegistrationSteps ==
    /\ \/ (Register \/ Purge \/ MailStep \/ EditCard) /\ OfAccounts
       \/ UseCard(x) /\ OfAccounts
       \/ \E a \in Accounts : (ExpireRegistration(a) \/ Resend(a)) /\ OfAccounts
       \/ \E l \in inbox : Verify(b1, l) /\ OfAccounts
       \/ ReadToggle /\ staff'.id = o /\ OfAccounts
       \/ GSwitchCard
    /\ \A a \in Accounts : HasRow(a)' => accounts'[a].card = IF a = a1 THEN o ELSE x
    /\ fresh' <= 3
    /\ HasRow(a1)' /\ ~HasRow(a1) => accounts'[a1].email = e1 /\ accounts[a2] = Nil

\* One browser is used again and again, the mails' links are followed in the other.
SessionSteps ==
    /\ \/ MailStep /\ OfAccounts
       \/ \E a \in Accounts : (Resend(a) \/ RequestReset(a) \/ Authenticate(b1, a)) /\ OfAccounts
       \/ \E l \in inbox : (Verify(b2, l) \/ ResetPassword(b2, l)) /\ OfAccounts
       \/ \E b \in Browsers : (Login(b) \/ Leave(b)) /\ OfAccounts
       \/ (ToggleBusiness \/ EditCard \/ SaveAccountToggle \/ AbandonToggle) /\ OfAccounts
       \/ ReadToggle /\ staff'.op = "account" /\ OfAccounts
    /\ Cardinality({m \in mails' : m.status # "closed"}) <= 1

InvitationSteps ==
    \/ \E b \in Browsers : (Claim(b) \/ Activate(b) \/ DropClaim(b)) /\ OfAccounts
    \/ GPanel /\ fresh' = fresh
    \/ GSwitchCard \/ GMerge

\* The account of x as contact of two cards that are one person's.
PermissionSteps ==
    \/ Permissions /\ (desk = Nil /\ desk'.op = "save" => desk'.row.owner # x /\ desk'.row.linked \in {x, Nil}
                                                          /\ ~desk'.row.primary)
    \/ GMerge

\* A new card with its authorized person, who books for it.
QuickSteps ==
    \/ QuickCreate /\ contacts'[c2] = Nil
    \/ ReadContact \/ ToggleContact \/ ToggleOnline \/ AbandonDesk \/ OnlineBooking
    \/ (Authenticate(b1, a1) \/ Login(b1)) /\ OfAccounts
    \/ \E l \in inbox : ResetPassword(b1, l) /\ OfAccounts
    \/ (ReadToggle \/ SaveAccountToggle) /\ OfAccounts
    \/ GSwitchCard

MCNext ==
    \/ Focused("registration", RegistrationSteps)
    \/ Focused("sessions", SessionSteps)
    \/ Focused("invitations", InvitationSteps)
    \/ Focused("permissions", PermissionSteps)
    \/ Focused("quick", QuickSteps)

MCSpec == MCInit /\ [][MCNext]_mcvars

\* The same fairness, of the steps that the focus keeps.
FairSpec ==
    /\ MCSpec
    /\ WF_mcvars(Focused("registration", Purge /\ OfAccounts))
    /\ WF_mcvars(Focused("registration", MailStep /\ OfAccounts))
    /\ \A a \in Accounts :
          /\ WF_mcvars(Focused("registration", ExpireRegistration(a) /\ OfAccounts))
          /\ SF_mcvars(Focused("registration", Settle(a) /\ OfAccounts))

\* The disagreement needs no race: here no merge comes between a contact's read and its save.
Uninterrupted   == PermissionSteps /\ (desk # Nil => desk' = Nil)
SpecPermissions ==
    /\ InitPermissions /\ contacts = [c \in Contacts |-> Nil] /\ grants = Own(accounts)
    /\ [][Focused("permissions", Uninterrupted)]_mcvars
=============================================================================
