---------------------------- MODULE Clients_proofs ----------------------------
(***************************************************************************)
(* For every number of cards, accounts, invitations, browsers, addresses,  *)
(* contacts and passwords, and for every step of ClientGrants: an account  *)
(* is verified only by its own mailbox, a session that is let in belongs   *)
(* to the address the account has now, what a merge, an invitation's end   *)
(* or a verification closed stays closed, a booking commits only for a     *)
(* card its account is offered at that moment, and the contacts of a card  *)
(* fit together.                                                           *)
(***************************************************************************)
EXTENDS ClientGrants, TLAPS

USE ClientAssumption DEF IsRow, HasRow

Entries == [account : Accounts, password : 0 .. MaxPassword, email : Emails]

AccountsTyped ==
    /\ accounts \in [Accounts -> AccountRows \cup {Nil, Gone}]
    /\ invitations \in [Invites -> InviteRows \cup {Nil}]
    /\ fresh \in 0 .. MaxPassword
LettersTyped ==
    /\ inbox \subseteq Letters
    /\ mails \subseteq [letter : Letters, status : MailStatus]
BrowsersTyped ==
    /\ claim \in [Browsers -> Invites \cup {Nil}]
    /\ entering \in [Browsers -> Entries \cup {Nil}]
    /\ session \in [Browsers -> Entries \cup {Nil}]
StaffTyped == staff # Nil =>
    /\ staff.to \in BOOLEAN
    /\ staff.op = "account" => staff.id \in Accounts
    /\ staff.op = "card" => staff.id \in Cards
Typed == AccountsTyped /\ LettersTyped /\ BrowsersTyped /\ StaffTyped

-----------------------------------------------------------------------------
(* What a step may do to an account that exists after it: make it, or give it another *)
(* address, unverified and with a password nobody has seen; or leave its address, and  *)
(* then verify it only by a letter that came to that address.                          *)
CameTo(a, e) == \E l \in inbox : l.kind = "verification" /\ l.account = a /\ l.email = e
FreshMoves == fresh' \in {fresh, fresh + 1}
NewPassword(a) == accounts'[a].password = fresh /\ fresh' = fresh + 1
MovesAccount(a) == HasRow(a)' =>
    \/ NewPassword(a) /\ ~accounts'[a].verified
    \/ /\ HasRow(a) /\ accounts'[a].email = accounts[a].email
       /\ accounts'[a].password = accounts[a].password \/ NewPassword(a)
       /\ accounts'[a].verified => accounts[a].verified \/ CameTo(a, accounts[a].email)

LEMMA RowChanges ==
    ASSUME NEW row \in AccountRows
    PROVE  /\ [row EXCEPT !.expired = TRUE] \in AccountRows
           /\ [row EXCEPT !.used = TRUE] \in AccountRows
           /\ \A on \in BOOLEAN : [row EXCEPT !.active = on] \in AccountRows
           /\ \A k \in Cards : [row EXCEPT !.card = k] \in AccountRows
           /\ \A n \in 0 .. MaxPassword :
                 /\ [row EXCEPT !.password = n] \in AccountRows
                 /\ [row EXCEPT !.verified = TRUE, !.pending = FALSE, !.expired = FALSE, !.password = n] \in AccountRows
                 /\ \A e \in Emails : [row EXCEPT !.email = e, !.verified = FALSE, !.password = n] \in AccountRows
  BY DEF AccountRows

LEMMA WhatStays ==
    ASSUME NEW row \in AccountRows, NEW changed \in AccountRows,
           \/ changed = [row EXCEPT !.expired = TRUE] \/ changed = [row EXCEPT !.used = TRUE]
           \/ \E on \in BOOLEAN : changed = [row EXCEPT !.active = on]
           \/ \E k \in Cards : changed = [row EXCEPT !.card = k]
    PROVE  changed.email = row.email /\ changed.password = row.password /\ changed.verified = row.verified
  BY DEF AccountRows

LEMMA NewRow ==
    ASSUME NEW k \in Cards, NEW e \in Emails, NEW n \in 0 .. MaxPassword, NEW public \in BOOLEAN
    PROVE  NewAccount(k, e, n, public) \in AccountRows
  BY DEF AccountRows, NewAccount

Quiet == UNCHANGED <<accounts, invitations, fresh>>

LEMMA QuietAccounts ==
    ASSUME AccountsTyped, Quiet
    PROVE  AccountsTyped' /\ FreshMoves /\ \A a \in Accounts : MovesAccount(a)
  BY DEF AccountsTyped, Quiet, MovesAccount, FreshMoves

(* A step that saves one row. *)
LEMMA OneAccount ==
    ASSUME AccountsTyped, NEW a \in Accounts, HasRow(a), NEW row \in AccountRows,
           accounts' = [accounts EXCEPT ![a] = row], UNCHANGED invitations, FreshMoves, fresh' \in 0 .. MaxPassword,
           \/ (row.password = fresh /\ fresh' = fresh + 1) /\ ~row.verified
           \/ /\ row.email = accounts[a].email
              /\ row.password = accounts[a].password \/ (row.password = fresh /\ fresh' = fresh + 1)
              /\ row.verified => accounts[a].verified \/ CameTo(a, accounts[a].email)
    PROVE  AccountsTyped' /\ FreshMoves /\ \A c \in Accounts : MovesAccount(c)
  BY DEF AccountsTyped, MovesAccount, NewPassword, FreshMoves

LEMMA AccountStep ==
    ASSUME Typed, [GNext]_gvars
    PROVE  AccountsTyped' /\ FreshMoves /\ \A a \in Accounts : MovesAccount(a)
<1>. DEFINE Good == AccountsTyped' /\ FreshMoves /\ \A a \in Accounts : MovesAccount(a)
<1>r. ASSUME NEW a \in Accounts, HasRow(a) PROVE accounts[a] \in AccountRows
  BY <1>r DEF Typed, AccountsTyped, FreshMoves
<1>f. fresh < MaxPassword => fresh + 1 \in 0 .. MaxPassword
  BY DEF Typed, AccountsTyped, FreshMoves
<1>q. Quiet => Good
  BY QuietAccounts DEF Typed
<1>1. ASSUME Register PROVE Good
  <2>. PICK e \in Emails, w \in People, k \in Cards, a \in Accounts : RegisterClientAccess(e, w, k, a)
    BY <1>1 DEF Register
  <2>1. /\ UNCHANGED invitations /\ fresh < MaxPassword /\ fresh' = fresh + 1
        /\ accounts' = [h \in Accounts |-> IF h = a THEN NewAccount(k, e, fresh, TRUE)
                                           ELSE IF h \in HoldersOf(e) THEN Gone ELSE accounts[h]]
    BY <1>1 DEF Register, RegisterClientAccess
  <2>2. NewAccount(k, e, fresh, TRUE) \in AccountRows
    BY NewRow DEF Typed, AccountsTyped, FreshMoves
  <2>3. NewAccount(k, e, fresh, TRUE).password = fresh /\ ~NewAccount(k, e, fresh, TRUE).verified
    BY DEF NewAccount
  <2>. QED
    BY <1>f, <2>1, <2>2, <2>3 DEF Typed, AccountsTyped, MovesAccount, NewPassword, FreshMoves
<1>2. ASSUME Purge PROVE Good
  BY <1>2 DEF Purge, Typed, AccountsTyped, MovesAccount, FreshMoves
<1>3. MailStep => Quiet
  BY DEF MailStep, Quiet, rows
<1>4. ASSUME NEW a \in Accounts, ExpireRegistration(a) PROVE Good
  <2>. DEFINE row == [accounts[a] EXCEPT !.expired = TRUE]
  <2>1. HasRow(a) /\ accounts' = [accounts EXCEPT ![a] = row] /\ UNCHANGED <<invitations, fresh>>
    BY <1>4 DEF ExpireRegistration
  <2>2. row \in AccountRows
    BY <1>r, <2>1, RowChanges
  <2>3. row.email = accounts[a].email /\ row.password = accounts[a].password /\ row.verified = accounts[a].verified
    BY <1>r, <2>1, <2>2, WhatStays
  <2>. QED
    BY <2>1, <2>2, <2>3, OneAccount DEF Typed, AccountsTyped, FreshMoves
<1>5. ASSUME NEW a \in Accounts, Resend(a) \/ RequestReset(a) PROVE Quiet
  BY <1>5 DEF Resend, RequestReset, Quiet, rows
<1>6. ASSUME NEW b \in Browsers, NEW l \in inbox, Verify(b, l) PROVE Good
  <2>. DEFINE a == l.account
  <2>1. a \in Accounts /\ l.email \in Emails
    BY DEF Typed, LettersTyped, Letters
  <2>2. /\ HasRow(a) /\ accounts[a].email = l.email /\ l.kind = "verification" /\ fresh < MaxPassword
        /\ fresh' = fresh + 1 /\ UNCHANGED invitations
    BY <1>6 DEF Verify, VerifiedClientFromToken, Verifiable
  <2>3. accounts' = [accounts EXCEPT ![a] =
            [accounts[a] EXCEPT !.verified = TRUE, !.pending = FALSE, !.expired = FALSE, !.password = fresh]]
    BY <1>6, <2>1 DEF Verify, VerifiedClientFromToken, Typed, AccountsTyped
  <2>4. [accounts[a] EXCEPT !.verified = TRUE, !.pending = FALSE, !.expired = FALSE, !.password = fresh] \in AccountRows
    BY <1>r, <2>1, <2>2, RowChanges DEF Typed, AccountsTyped, FreshMoves
  <2>5. CameTo(a, accounts[a].email)
    BY <2>2 DEF CameTo
  <2>6. /\ [accounts[a] EXCEPT !.verified = TRUE, !.pending = FALSE, !.expired = FALSE, !.password = fresh].password = fresh
        /\ [accounts[a] EXCEPT !.verified = TRUE, !.pending = FALSE, !.expired = FALSE, !.password = fresh].email
           = accounts[a].email
    BY <1>r, <2>1, <2>2 DEF AccountRows
  <2>. QED
    BY <1>f, <2>1, <2>2, <2>3, <2>4, <2>5, <2>6, OneAccount DEF Typed, FreshMoves
<1>7. ASSUME NEW b \in Browsers, NEW l \in inbox, ResetPassword(b, l) PROVE Good
  <2>. DEFINE a == l.account
  <2>1. a \in Accounts
    BY DEF Typed, LettersTyped, Letters
  <2>2. /\ HasRow(a) /\ fresh < MaxPassword /\ fresh' = fresh + 1 /\ UNCHANGED invitations
        /\ accounts' = [accounts EXCEPT ![a] = [accounts[a] EXCEPT !.password = fresh]]
    BY <1>7, <2>1 DEF ResetPassword, ResetFromToken, MayEnter
  <2>3. [accounts[a] EXCEPT !.password = fresh] \in AccountRows
    BY <1>r, <2>1, <2>2, RowChanges DEF Typed, AccountsTyped, FreshMoves
  <2>4. /\ [accounts[a] EXCEPT !.password = fresh].password = fresh
        /\ [accounts[a] EXCEPT !.password = fresh].email = accounts[a].email
        /\ [accounts[a] EXCEPT !.password = fresh].verified = accounts[a].verified
    BY <1>r, <2>1, <2>2 DEF AccountRows
  <2>. QED
    BY <1>f, <2>1, <2>2, <2>3, <2>4, OneAccount DEF Typed, FreshMoves
<1>8. ASSUME NEW b \in Browsers, Login(b) PROVE Good
  <2>. DEFINE a == entering[b].account
  <2>1. a \in Accounts /\ HasRow(a)
    BY <1>8 DEF Login, Typed, BrowsersTyped, Entries
  <2>. DEFINE row == [accounts[a] EXCEPT !.used = TRUE]
  <2>2. accounts' = [accounts EXCEPT ![a] = row] /\ UNCHANGED <<invitations, fresh>>
    BY <1>8 DEF Login
  <2>3. row \in AccountRows
    BY <1>r, <2>1, RowChanges
  <2>4. row.email = accounts[a].email /\ row.password = accounts[a].password /\ row.verified = accounts[a].verified
    BY <1>r, <2>1, <2>3, WhatStays
  <2>. QED
    BY <2>1, <2>2, <2>3, <2>4, OneAccount DEF Typed, AccountsTyped, FreshMoves
<1>9. ASSUME NEW b \in Browsers,
             Leave(b) \/ Claim(b) \/ DropClaim(b) \/ \E a \in Accounts : Authenticate(b, a)
      PROVE  Quiet
  BY <1>9 DEF Leave, Claim, DropClaim, Authenticate, Quiet, rows
<1>10. ASSUME NEW b \in Browsers, Activate(b) PROVE Good
  <2>. PICK e \in Emails, a \in Accounts : ActivateClaimed(claim[b], e, a)
    BY <1>10 DEF Activate
  <2>. DEFINE i == claim[b]
             row == NewAccount(invitations[i].card, e, fresh, FALSE)
  <2>1. i \in Invites /\ invitations[i] \in InviteRows
    BY <1>10 DEF Activate, Claimed, Available, Typed, AccountsTyped, BrowsersTyped
  <2>2. /\ accounts' = [accounts EXCEPT ![a] = row] /\ accounts[a] = Nil
        /\ invitations' = [invitations EXCEPT ![i] = [invitations[i] EXCEPT !.state = "used"]]
        /\ fresh' = fresh + 1 /\ fresh < MaxPassword
    BY <2>1 DEF ActivateClaimed, Typed, AccountsTyped
  <2>3. [invitations[i] EXCEPT !.state = "used"] \in InviteRows /\ invitations[i].card \in Cards
    BY <2>1 DEF InviteRows
  <2>4. row \in AccountRows
    BY <2>3, NewRow DEF Typed, AccountsTyped, FreshMoves
  <2>5. row.password = fresh /\ ~row.verified
    BY DEF NewAccount
  <2>. QED
    BY <1>f, <2>1, <2>2, <2>3, <2>4, <2>5 DEF Typed, AccountsTyped, MovesAccount, NewPassword, FreshMoves
<1>11. ASSUME NEW k \in Cards, UseCard(k) \/ \E w \in People, e \in Emails \cup {NoEmail} : CreateCard(k, w, e)
       PROVE  Quiet
  BY <1>11 DEF UseCard, CreateCard, Quiet
<1>12. ASSUME Invite \/ EndInvite PROVE Good
  <2>1. ASSUME Invite PROVE invitations' \in [Invites -> InviteRows \cup {Nil}]
    BY <2>1 DEF Invite, CreateInvitation, OpenCards, Typed, AccountsTyped, InviteRows
  <2>3. ASSUME EndInvite PROVE invitations' \in [Invites -> InviteRows \cup {Nil}]
    <3>. PICK i \in Invites : /\ IsRow(invitations[i])
                             /\ \/ invitations' = [invitations EXCEPT ![i].expired = TRUE]
                                \/ invitations' = [invitations EXCEPT ![i].state = "revoked"]
      BY <2>3 DEF EndInvite
    <3>1. invitations[i] \in InviteRows
      BY DEF Typed, AccountsTyped, FreshMoves
    <3>2. /\ [invitations[i] EXCEPT !.expired = TRUE] \in InviteRows
          /\ [invitations[i] EXCEPT !.state = "revoked"] \in InviteRows
      BY <3>1 DEF InviteRows
    <3>. QED
      BY <3>2 DEF Typed, AccountsTyped, FreshMoves
  <2>2. UNCHANGED <<accounts, fresh>>
    BY <1>12 DEF Invite, EndInvite
  <2>. QED
    BY <1>12, <2>1, <2>2, <2>3 DEF Typed, AccountsTyped, MovesAccount, FreshMoves
<1>13. ASSUME EditCard PROVE Good
  <2>1. UNCHANGED invitations
    BY <1>13 DEF EditCard
  <2>2. CASE UNCHANGED <<accounts, fresh>>
    BY <1>q, <2>1, <2>2 DEF Quiet
  <2>3. CASE ~UNCHANGED <<accounts, fresh>>
    <3>. PICK k \in OpenCards, w \in People, e \in Emails, a \in Accounts :
            HasRow(a) /\ e # accounts[a].email /\ ChangeAddress(k, w, a, e)
      BY <1>13, <2>3 DEF EditCard
    <3>. DEFINE row == [accounts[a] EXCEPT !.email = e, !.verified = FALSE, !.password = fresh]
    <3>1. accounts' = [accounts EXCEPT ![a] = row] /\ fresh < MaxPassword /\ fresh' = fresh + 1
      BY DEF ChangeAddress, Typed, AccountsTyped
    <3>2. row \in AccountRows /\ ~row.verified /\ row.password = fresh
      <4>1. accounts[a] \in AccountRows /\ fresh \in 0 .. MaxPassword
        BY <1>r DEF Typed, AccountsTyped, FreshMoves
      <4>2. row \in AccountRows
        BY <4>1, RowChanges
      <4>3. ~row.verified /\ row.password = fresh
        BY <4>1 DEF AccountRows
      <4>. QED
        BY <4>2, <4>3
    <3>. QED
      BY <1>f, <2>1, <3>1, <3>2, OneAccount DEF Typed, FreshMoves
  <2>. QED
    BY <2>2, <2>3
<1>14. ASSUME ReadToggle \/ AbandonToggle \/ SaveCardToggle \/ ToggleBusiness
              \/ \E p, o \in Cards, a \in Accounts : Dismiss(p, o, a)
       PROVE  Quiet
  BY <1>14 DEF ReadToggle, AbandonToggle, SaveCardToggle, ToggleBusiness, Dismiss, Quiet, rows
<1>15. ASSUME SaveAccountToggle PROVE Good
  <2>. DEFINE a == staff.id
             row == [accounts[a] EXCEPT !.active = staff.to]
  <2>1. a \in Accounts /\ HasRow(a) /\ staff.to \in BOOLEAN
    BY <1>15 DEF SaveAccountToggle, Typed, StaffTyped
  <2>2. accounts' = [accounts EXCEPT ![a] = row] /\ UNCHANGED <<invitations, fresh>>
    BY <1>15 DEF SaveAccountToggle
  <2>3. row \in AccountRows
    BY <1>r, <2>1, RowChanges
  <2>4. row.email = accounts[a].email /\ row.password = accounts[a].password /\ row.verified = accounts[a].verified
    BY <1>r, <2>1, <2>3, WhatStays
  <2>. QED
    BY <2>1, <2>2, <2>3, <2>4, OneAccount DEF Typed, AccountsTyped, FreshMoves
<1>16. ASSUME NEW p \in Cards, NEW o \in Cards, NEW a \in Accounts, Merge(p, o, a) PROVE Good
  <2>1. /\ HasRow(a) /\ UNCHANGED fresh
        /\ accounts' = [accounts EXCEPT ![a] = [accounts[a] EXCEPT !.card = p]]
    BY <1>16 DEF Merge, MergeCandidate
  <2>2. invitations' \in [Invites -> InviteRows \cup {Nil}]
    BY <1>16 DEF Merge, Typed, AccountsTyped, InviteRows
  <2>3. [accounts[a] EXCEPT !.card = p] \in AccountRows
    BY <1>r, <2>1, RowChanges DEF Typed, AccountsTyped, FreshMoves
  <2>4. /\ [accounts[a] EXCEPT !.card = p].email = accounts[a].email
        /\ [accounts[a] EXCEPT !.card = p].password = accounts[a].password
        /\ [accounts[a] EXCEPT !.card = p].verified = accounts[a].verified
    BY <1>r, <2>1 DEF AccountRows
  <2>. QED
    BY <2>1, <2>2, <2>3, <2>4 DEF Typed, AccountsTyped, MovesAccount, FreshMoves
<1>17. ASSUME Permissions \/ OnlineBooking PROVE Quiet
  BY <1>17 DEF Permissions, OnlineBooking, OpenContactForm, SaveContact, QuickCreate, ReadContact, ToggleContact,
        ToggleOnline, AbandonDesk, OpenPage, BookOnline, ClosePage, Quiet, vars, rows
<1>18. UNCHANGED gvars => Quiet
  BY DEF gvars, vars, rows, Quiet
<1>. QED
  BY <1>q, <1>1, <1>2, <1>3, <1>4, <1>5, <1>6, <1>7, <1>8, <1>9, <1>10, <1>11, <1>12, <1>13, <1>14, <1>15, <1>16,
     <1>17, <1>18 DEF GNext, GRegistration, GVisits, GPanel, GSwitchCard, GMerge, Registration, Visits, PanelRows

-----------------------------------------------------------------------------
(* Letters carry the address an account had when they were queued. *)
LEMMA LetterOf ==
    ASSUME AccountsTyped, NEW a \in Accounts, HasRow(a), NEW kind \in {"verification", "reset"}
    PROVE  Letter(kind, a) \in Letters
<1>1. accounts[a] \in AccountRows
  BY DEF AccountsTyped
<1>. QED
  BY <1>1 DEF Letter, Letters, AccountRows

LEMMA QueuedLetters ==
    ASSUME LettersTyped, NEW l \in Letters
    PROVE  Queued(mails, l) \subseteq [letter : Letters, status : MailStatus]
  BY DEF LettersTyped, Queued, MailStatus

LEMMA LetterStep ==
    ASSUME Typed, [GNext]_gvars
    PROVE  LettersTyped' /\ inbox \subseteq inbox'
<1>. DEFINE Good == LettersTyped' /\ inbox \subseteq inbox'
<1>q. UNCHANGED post => Good
  BY DEF post, Typed, LettersTyped
<1>1. ASSUME Register PROVE Good
  <2>1. mails' \subseteq mails /\ UNCHANGED inbox
    BY <1>1 DEF Register, RegisterClientAccess
  <2>. QED
    BY <2>1 DEF Typed, LettersTyped
<1>2. ASSUME Purge PROVE Good
  <2>1. \A m \in mails' : \E n \in mails : m = n \/ m = [n EXCEPT !.status = "closed"]
    BY <1>2 DEF Purge
  <2>2. UNCHANGED inbox
    BY <1>2 DEF Purge
  <2>3. \A n \in mails : [n EXCEPT !.status = "closed"] \in [letter : Letters, status : MailStatus]
    BY DEF Typed, LettersTyped, MailStatus
  <2>. QED
    BY <2>1, <2>2, <2>3 DEF Typed, LettersTyped
<1>3. ASSUME MailStep PROVE Good
  <2>. PICK m \in mails, to \in {"processing", "sending", "stale", "closed"} :
          /\ mails' = (mails \ {m}) \cup {[m EXCEPT !.status = to]}
          /\ inbox' = IF m.status = "sending" THEN inbox \cup {m.letter} ELSE inbox
    BY <1>3 DEF MailStep
  <2>1. [m EXCEPT !.status = to] \in [letter : Letters, status : MailStatus] /\ m.letter \in Letters
    BY DEF Typed, LettersTyped, MailStatus
  <2>. QED
    BY <2>1 DEF Typed, LettersTyped
<1>4. ASSUME NEW a \in Accounts, Resend(a) \/ RequestReset(a) PROVE Good
  <2>1. PICK kind \in {"verification", "reset"} : HasRow(a) /\ mails' = Queued(mails, Letter(kind, a))
    BY <1>4 DEF Resend, QueueVerification, RequestReset, MayEnter
  <2>2. UNCHANGED inbox
    BY <1>4 DEF Resend, RequestReset
  <2>. QED
    BY <2>1, <2>2, LetterOf, QueuedLetters DEF Typed, LettersTyped
<1>5. ASSUME EditCard PROVE Good
  <2>1. UNCHANGED inbox
    BY <1>5 DEF EditCard
  <2>2. CASE UNCHANGED mails
    BY <2>1, <2>2 DEF Typed, LettersTyped
  <2>3. CASE ~UNCHANGED mails
    <3>. PICK k \in OpenCards, w \in People, e \in Emails, a \in Accounts : ChangeAddress(k, w, a, e)
      BY <1>5, <2>3 DEF EditCard
    <3>1. [kind |-> "verification", account |-> a, email |-> e, password |-> fresh] \in Letters
      BY DEF Letters, Typed, AccountsTyped
    <3>. QED
      BY <2>1, <3>1, QueuedLetters DEF ChangeAddress, Typed, LettersTyped
  <2>. QED
    BY <2>2, <2>3
<1>6. ASSUME NEW a \in Accounts, ExpireRegistration(a) PROVE UNCHANGED post
  BY <1>6 DEF ExpireRegistration
<1>7. ASSUME NEW b \in Browsers, NEW l \in inbox, Verify(b, l) \/ ResetPassword(b, l) PROVE UNCHANGED post
  BY <1>7 DEF Verify, ResetPassword
<1>8. Visits \/ Permissions \/ OnlineBooking \/ ToggleBusiness \/ UNCHANGED gvars => UNCHANGED post
  BY DEF Visits, Login, Leave, Claim, Activate, DropClaim, Authenticate, Permissions, OnlineBooking, OpenContactForm,
         SaveContact, QuickCreate, ReadContact, ToggleContact, ToggleOnline, AbandonDesk, OpenPage, BookOnline,
         ClosePage, ToggleBusiness, gvars, vars
<1>9. PanelRows \/ SaveCardToggle => EditCard \/ UNCHANGED post
  BY DEF PanelRows, UseCard, CreateCard, Invite, EndInvite, ReadToggle, SaveAccountToggle, AbandonToggle, Dismiss,
         SaveCardToggle
<1>10. ASSUME NEW p \in Cards, NEW o \in Cards, NEW a \in Accounts, Merge(p, o, a) PROVE UNCHANGED post
  BY <1>10 DEF Merge
<1>. QED
  BY <1>q, <1>1, <1>2, <1>3, <1>4, <1>5, <1>6, <1>7, <1>8, <1>9, <1>10
     DEF GNext, GRegistration, GVisits, GPanel, GSwitchCard, GMerge, Registration

-----------------------------------------------------------------------------
(* A browser gets no session but for the account it was being opened for, and is let in *)
(* only for an account as it is now.                                                    *)
MovesBrowser(b) ==
    /\ \/ entering'[b] \in {entering[b], Nil}
       \/ LET e == entering'[b] IN
          e \in Entries /\ e.email = accounts'[e.account].email
             /\ e.password = accounts'[e.account].password
             /\ \/ e.password = fresh /\ fresh' = fresh + 1
                \/ HasRow(e.account) /\ UNCHANGED <<accounts, fresh>>
    /\ session'[b] \in {session[b], entering[b], Nil}

LEMMA BrowserStep ==
    ASSUME Typed, [GNext]_gvars
    PROVE  BrowsersTyped' /\ \A b \in Browsers : MovesBrowser(b)
<1>. DEFINE Good == BrowsersTyped' /\ \A b \in Browsers : MovesBrowser(b)
<1>q. UNCHANGED browsers => Good
  BY DEF browsers, Typed, BrowsersTyped, MovesBrowser
<1>1. ASSUME NEW b \in Browsers, NEW l \in inbox, Verify(b, l) PROVE Good
  <2>. DEFINE a == l.account
             row == [accounts[a] EXCEPT !.verified = TRUE, !.pending = FALSE, !.expired = FALSE, !.password = fresh]
  <2>1. a \in Accounts /\ l.email \in Emails /\ accounts[a] \in AccountRows /\ accounts[a].email = l.email
    BY <1>1 DEF Verify, VerifiedClientFromToken, Verifiable, Typed, LettersTyped, Letters, AccountsTyped
  <2>2. /\ accounts' = [accounts EXCEPT ![a] = row] /\ UNCHANGED <<claim, session>> /\ fresh' = fresh + 1
        /\ entering' = [entering EXCEPT ![b] = [account |-> a, password |-> fresh, email |-> l.email]]
    BY <1>1, <2>1 DEF Verify, VerifiedClientFromToken
  <2>3. row.email = l.email /\ row.password = fresh
    BY <2>1 DEF AccountRows
  <2>4. accounts'[a].email = l.email /\ accounts'[a].password = fresh
    BY <2>1, <2>2, <2>3 DEF Typed, AccountsTyped
  <2>. QED
    BY <2>1, <2>2, <2>4 DEF Typed, AccountsTyped, BrowsersTyped, Entries, MovesBrowser
<1>2. ASSUME NEW b \in Browsers, NEW l \in inbox, ResetPassword(b, l) PROVE Good
  <2>. DEFINE a == l.account
             row == [accounts[a] EXCEPT !.password = fresh]
  <2>1. a \in Accounts /\ l.email \in Emails /\ accounts[a] \in AccountRows /\ accounts[a].email = l.email
    BY <1>2 DEF ResetPassword, ResetFromToken, MayEnter, Typed, LettersTyped, Letters, AccountsTyped
  <2>2. /\ accounts' = [accounts EXCEPT ![a] = row] /\ UNCHANGED claim /\ fresh' = fresh + 1
        /\ entering' = [entering EXCEPT ![b] = IF accepting THEN Nil
                                              ELSE [account |-> a, password |-> fresh, email |-> l.email]]
        /\ session' = IF accepting THEN [session EXCEPT ![b] = Nil] ELSE session
    BY <1>2, <2>1 DEF ResetPassword, ResetFromToken
  <2>3. row.email = l.email /\ row.password = fresh
    BY <2>1 DEF AccountRows
  <2>4. accounts'[a].email = l.email /\ accounts'[a].password = fresh
    BY <2>1, <2>2, <2>3 DEF Typed, AccountsTyped
  <2>. QED
    BY <2>1, <2>2, <2>4 DEF Typed, AccountsTyped, BrowsersTyped, Entries, MovesBrowser
<1>3. ASSUME NEW b \in Browsers, NEW a \in Accounts, Authenticate(b, a) PROVE Good
  <2>1. /\ HasRow(a) /\ UNCHANGED <<accounts, fresh, claim, session>>
        /\ entering' = [entering EXCEPT ![b] = [account |-> a, password |-> accounts[a].password,
                                               email |-> accounts[a].email]]
    BY <1>3 DEF Authenticate, MayEnter, rows
  <2>2. accounts[a].password \in 0 .. MaxPassword /\ accounts[a].email \in Emails
    BY <2>1 DEF Typed, AccountsTyped, AccountRows
  <2>. QED
    BY <2>1, <2>2 DEF Typed, BrowsersTyped, Entries, MovesBrowser
<1>4. ASSUME NEW b \in Browsers, Login(b) PROVE Good
  BY <1>4 DEF Login, Typed, BrowsersTyped, MovesBrowser
<1>5. ASSUME NEW b \in Browsers, Leave(b) PROVE Good
  BY <1>5 DEF Leave, Typed, BrowsersTyped, MovesBrowser
<1>6. ASSUME NEW b \in Browsers, Claim(b) \/ DropClaim(b) \/ Activate(b) PROVE Good
  BY <1>6 DEF Claim, DropClaim, Activate, Typed, BrowsersTyped, MovesBrowser
<1>7. Register \/ Purge \/ MailStep \/ (\E a \in Accounts : ExpireRegistration(a) \/ Resend(a) \/ RequestReset(a))
         => UNCHANGED browsers
  BY DEF Register, Purge, MailStep, ExpireRegistration, Resend, RequestReset
<1>8. PanelRows \/ SaveCardToggle \/ ToggleBusiness \/ Permissions \/ OnlineBooking \/ UNCHANGED gvars => UNCHANGED browsers
  BY DEF PanelRows, UseCard, CreateCard, Invite, EndInvite, EditCard, ReadToggle, SaveAccountToggle, AbandonToggle, Dismiss,
         SaveCardToggle, ToggleBusiness, Permissions, OnlineBooking, OpenContactForm,
         SaveContact, QuickCreate, ReadContact, ToggleContact, ToggleOnline, AbandonDesk, OpenPage, BookOnline,
         ClosePage, gvars, vars
<1>9. ASSUME NEW p \in Cards, NEW o \in Cards, NEW a \in Accounts, Merge(p, o, a) PROVE UNCHANGED browsers
  BY <1>9 DEF Merge
<1>. QED
  BY <1>q, <1>1, <1>2, <1>3, <1>4, <1>5, <1>6, <1>7, <1>8, <1>9
     DEF GNext, GRegistration, GVisits, GPanel, GSwitchCard, GMerge, Registration, Visits

LEMMA StaffStep ==
    ASSUME Typed, [GNext]_gvars
    PROVE  StaffTyped'
<1>1. ASSUME ReadToggle PROVE StaffTyped'
  <2>1. CASE \E k \in OpenCards : staff' = [op |-> "card", id |-> k, to |-> ~cards[k].active]
    BY <2>1 DEF StaffTyped, OpenCards
  <2>2. CASE \E a \in Accounts : staff' = [op |-> "account", id |-> a, to |-> ~accounts[a].active]
    BY <2>2 DEF StaffTyped
  <2>. QED
    BY <1>1, <2>1, <2>2 DEF ReadToggle
<1>2. staff' = Nil \/ UNCHANGED staff => StaffTyped'
  BY DEF Typed, StaffTyped
<1>3. Registration \/ Visits \/ ToggleBusiness \/ Permissions \/ OnlineBooking \/ UNCHANGED gvars => UNCHANGED staff
  BY DEF Registration, Register, Purge, MailStep, ExpireRegistration, Resend, RequestReset, Verify, ResetPassword,
         Visits, Login, Leave, Claim, Activate, DropClaim, Authenticate, Permissions, OnlineBooking, OpenContactForm,
         SaveContact, QuickCreate, ReadContact, ToggleContact, ToggleOnline, AbandonDesk, OpenPage, BookOnline,
         ClosePage, ToggleBusiness, gvars, vars
<1>4. PanelRows \/ SaveCardToggle => ReadToggle \/ staff' = Nil \/ UNCHANGED staff
  BY DEF PanelRows, UseCard, CreateCard, Invite, EndInvite, EditCard, SaveAccountToggle, AbandonToggle, Dismiss,
         SaveCardToggle
<1>5. ASSUME NEW p \in Cards, NEW o \in Cards, NEW a \in Accounts, Merge(p, o, a) PROVE UNCHANGED staff
  BY <1>5 DEF Merge
<1>. QED
  BY <1>1, <1>2, <1>3, <1>4, <1>5 DEF GNext, GRegistration, GVisits, GPanel, GSwitchCard, GMerge

-----------------------------------------------------------------------------
LEMMA AlwaysTyped == GSpec => []Typed
<1>1. GInit => Typed
  BY DEF GInit, Init, Typed, AccountsTyped, LettersTyped, BrowsersTyped, StaffTyped
<1>2. Typed /\ [GNext]_gvars => Typed'
  BY AccountStep, LetterStep, BrowserStep, StaffStep DEF Typed
<1>. QED
  BY <1>1, <1>2, PTL DEF GSpec

(* An account counts as verified only while a letter for it came to the address it has *)
(* now (update_professional_client, merge_client_records, verified_client_from_token,  *)
(* reset_client_password_from_token against each other).                               *)
THEOREM VerifiedByTheMailboxItHas == GSpec => []VerifiedByItsMailbox
<1>1. GInit => VerifiedByItsMailbox
  BY DEF GInit, Init, VerifiedByItsMailbox
<1>2. ASSUME Typed, VerifiedByItsMailbox, [GNext]_gvars PROVE VerifiedByItsMailbox'
  <2>1. \A a \in Accounts : MovesAccount(a)
    BY <1>2, AccountStep
  <2>2. inbox \subseteq inbox'
    BY <1>2, LetterStep
  <2>. QED
    BY <1>2, <2>1, <2>2 DEF VerifiedByItsMailbox, MovesAccount, CameTo
<1>. QED
  BY <1>1, <1>2, AlwaysTyped, PTL DEF GSpec

-----------------------------------------------------------------------------
(* A password is given out once: what a browser remembers of an account was its password *)
(* then, and if it still is, the account still has the address it had then.              *)
OpenedForIt(e) ==
    /\ e.password < fresh
    /\ HasRow(e.account) /\ e.password = accounts[e.account].password => e.email = accounts[e.account].email
PasswordsAreSpent == \A a \in Accounts : HasRow(a) => accounts[a].password < fresh
SessionInv ==
    /\ PasswordsAreSpent
    /\ \A b \in Browsers : entering[b] # Nil => OpenedForIt(entering[b])
    /\ \A b \in Browsers : session[b] # Nil => OpenedForIt(session[b])

LEMMA StillOpenedForIt ==
    ASSUME Typed, NEW e \in Entries, OpenedForIt(e), MovesAccount(e.account), FreshMoves
    PROVE  e.password < fresh' /\ (IsRow(accounts'[e.account]) /\ e.password = accounts'[e.account].password
                                     => e.email = accounts'[e.account].email)
<1>1. e.password \in Nat /\ fresh \in Nat
  BY DEF Typed, AccountsTyped, Entries
<1>. QED
  BY <1>1 DEF OpenedForIt, MovesAccount, NewPassword, FreshMoves

(* A browser session that is let in was opened for the address the account has now: a    *)
(* change of address or of password ends the others, those still being opened too       *)
(* (login_client_access, get_session_client_access).                                     *)
THEOREM SessionsBelongToTheAddress == GSpec => []SessionsFollowTheMailbox
<1>1. GInit => SessionInv
  BY DEF GInit, Init, SessionInv, PasswordsAreSpent
<1>2. ASSUME Typed, SessionInv, [GNext]_gvars PROVE SessionInv'
  <2>1. AccountsTyped' /\ FreshMoves /\ \A a \in Accounts : MovesAccount(a)
    BY <1>2, AccountStep
  <2>2. \A b \in Browsers : MovesBrowser(b)
    BY <1>2, BrowserStep
  <2>3. PasswordsAreSpent'
    <3>. SUFFICES ASSUME NEW a \in Accounts, HasRow(a)' PROVE accounts'[a].password < fresh'
      BY DEF PasswordsAreSpent
    <3>1. fresh \in Nat /\ fresh' \in {fresh, fresh + 1}
      BY <1>2, <2>1 DEF Typed, AccountsTyped, FreshMoves
    <3>2. HasRow(a) => accounts[a].password \in Nat /\ accounts[a].password < fresh
      BY <1>2 DEF Typed, AccountsTyped, AccountRows, SessionInv, PasswordsAreSpent
    <3>. QED
      BY <2>1, <3>1, <3>2 DEF MovesAccount, NewPassword
  <2>4. ASSUME NEW e \in Entries, OpenedForIt(e)
        PROVE  e.password < fresh' /\ (IsRow(accounts'[e.account]) /\ e.password = accounts'[e.account].password
                                         => e.email = accounts'[e.account].email)
    BY <1>2, <2>1, <2>4, StillOpenedForIt DEF Entries
  <2>5. ASSUME NEW b \in Browsers, entering'[b] # Nil PROVE OpenedForIt(entering[b])'
    <3>1. CASE entering'[b] = entering[b]
      BY <1>2, <2>4, <2>5, <3>1 DEF Typed, BrowsersTyped, SessionInv, OpenedForIt
    <3>2. CASE entering'[b] # entering[b]
      <4>1. entering'[b].email = accounts'[entering'[b].account].email /\ entering'[b].account \in Accounts
        BY <2>2, <2>5, <3>2 DEF MovesBrowser, Entries
      <4>2. entering'[b].password < fresh'
        BY <1>2, <2>2, <2>5, <3>2, <4>1 DEF MovesBrowser, SessionInv, PasswordsAreSpent, Typed, AccountsTyped
      <4>. QED
        BY <4>1, <4>2 DEF OpenedForIt
    <3>. QED
      BY <3>1, <3>2
  <2>6. ASSUME NEW b \in Browsers, session'[b] # Nil PROVE OpenedForIt(session[b])'
    <3>1. session'[b] \in {session[b], entering[b]}
      BY <2>2, <2>6 DEF MovesBrowser
    <3>. QED
      BY <1>2, <2>4, <2>6, <3>1 DEF Typed, BrowsersTyped, SessionInv, OpenedForIt
  <2>. QED
    BY <2>3, <2>5, <2>6 DEF SessionInv
<1>3. Typed /\ SessionInv => SessionsFollowTheMailbox
  BY DEF SessionInv, SessionsFollowTheMailbox, Accepted, MayEnter, OpenedForIt
<1>. QED
  BY <1>1, <1>2, <1>3, AlwaysTyped, PTL DEF GSpec

-----------------------------------------------------------------------------
(* Cards, for what a merge leaves behind *)

CardsTyped == cards \in [Cards -> CardRows \cup {Nil, Gone}]

LEMMA CardChanges ==
    ASSUME NEW row \in CardRows
    PROVE  /\ [row EXCEPT !.busy = TRUE] \in CardRows
           /\ \A on \in BOOLEAN : [row EXCEPT !.active = on] \in CardRows
           /\ \A f \in Fingerprints : [row EXCEPT !.dismissed = f] \in CardRows
           /\ \A w \in People, e \in Emails \cup {NoEmail} : [row EXCEPT !.who = w, !.email = e] \in CardRows
           /\ \A e \in Emails : [row EXCEPT !.active = TRUE, !.email = e] \in CardRows
           /\ \A p \in Cards :
                 [row EXCEPT !.active = FALSE, !.merged = p, !.busy = FALSE, !.dismissed = Nil] \in CardRows
           /\ \A busy \in BOOLEAN : [row EXCEPT !.busy = busy] \in CardRows
  BY DEF CardRows

(* What holds while cards are merged and accounts purged: an archived card is idle and has *)
(* no open invitation; an account has a card of its own that is not archived; a card that  *)
(* is purged with its pending account never had an invitation; and a verified account has  *)
(* left the pending ones for good.                                                         *)
ArchivedIdle == \A k \in Cards : Archived(k) =>
    /\ ~cards[k].active
    /\ \A i \in Invites : IsRow(invitations[i]) /\ invitations[i].card = k => invitations[i].state # "open"
Homes ==
    /\ \A a \in Accounts : HasRow(a) => IsRow(Card(a)) /\ Card(a).merged = Nil
    /\ \A a, b \in Accounts : HasRow(a) /\ HasRow(b) /\ accounts[a].card = accounts[b].card => a = b
InvitedCards == \A i \in Invites : IsRow(invitations[i]) =>
    /\ IsRow(cards[invitations[i].card])
    /\ \A a \in Accounts : HasRow(a) /\ accounts[a].pending => accounts[a].card # invitations[i].card
ProvenStay == proven \subseteq Accounts /\ \A a \in proven : HasRow(a) /\ ~accounts[a].pending
Archive == ArchivedIdle /\ Homes /\ InvitedCards /\ ProvenStay

(* What most steps do to a card, to an account and to an invitation *)
MovesCard(k) ==
    \/ cards'[k] = cards[k]
    \/ cards[k] = Nil /\ cards'[k] \in CardRows /\ cards'[k].merged = Nil
    \/ /\ cards[k] \in CardRows /\ cards'[k] \in CardRows /\ cards'[k].merged = cards[k].merged
       /\ cards'[k].active => cards[k].active \/ cards[k].merged = Nil
KeepsHome(a) ==
    \/ accounts'[a] = accounts[a]
    \/ /\ HasRow(a) /\ accounts'[a] \in AccountRows /\ accounts'[a].card = accounts[a].card
       /\ accounts'[a].pending => accounts[a].pending
MovesInvite(i) ==
    \/ invitations'[i] = invitations[i]
    \/ invitations[i] = Nil /\ invitations'[i] \in InviteRows /\ invitations'[i].card \in OpenCards
       /\ ~HasAccount(invitations'[i].card)
    \/ /\ invitations[i] \in InviteRows /\ invitations'[i] \in InviteRows
       /\ invitations'[i].card = invitations[i].card
       /\ invitations[i].state = "open" /\ (invitations'[i].state = "revoked" \/ ~invitations[i].expired)
ProvenMove == \A a \in proven' : a \in proven \/ (a \in Accounts /\ accounts'[a] \in AccountRows /\ ~accounts'[a].pending)

LEMMA KeptArchive ==
    ASSUME Typed, AccountsTyped', CardsTyped, CardsTyped', Archive, ProvenMove,
           \A k \in Cards : MovesCard(k),
           \A a \in Accounts : KeepsHome(a),
           \A i \in Invites : MovesInvite(i)
    PROVE  Archive'
<1>a. ASSUME NEW a \in Accounts, HasRow(a)'
      PROVE  /\ HasRow(a) /\ accounts'[a].card = accounts[a].card /\ accounts[a].card \in Cards
             /\ accounts'[a].pending => accounts[a].pending
  BY <1>a DEF KeepsHome, Typed, AccountsTyped, AccountRows
<1>k. ASSUME NEW k \in Cards, IsRow(cards[k])
      PROVE  IsRow(cards'[k]) /\ cards'[k].merged = cards[k].merged
  BY <1>k DEF MovesCard, CardsTyped
<1>1. ArchivedIdle'
  <2>. SUFFICES ASSUME NEW k \in Cards, Archived(k)'
                PROVE  /\ ~cards'[k].active
                       /\ \A i \in Invites : IsRow(invitations'[i]) /\ invitations'[i].card = k
                                               => invitations'[i].state # "open"
    BY DEF ArchivedIdle
  <2>1. Archived(k) /\ ~cards'[k].active
    BY <1>k DEF MovesCard, Archived, Archive, ArchivedIdle
  <2>. QED
    BY <2>1 DEF MovesInvite, Archived, OpenCards, Archive, ArchivedIdle
<1>2. Homes'
  BY <1>a, <1>k DEF Homes, Archive, Card
<1>3. InvitedCards'
  <2>. SUFFICES ASSUME NEW i \in Invites, IsRow(invitations'[i])
                PROVE  /\ IsRow(cards'[invitations'[i].card])
                       /\ \A a \in Accounts : HasRow(a)' /\ accounts'[a].pending
                                              => accounts'[a].card # invitations'[i].card
    BY DEF InvitedCards
  <2>. QED
    BY <1>a, <1>k DEF MovesInvite, OpenCards, HasAccount, Archive, InvitedCards, Typed, AccountsTyped, InviteRows
<1>4. ProvenStay'
  BY DEF ProvenStay, ProvenMove, KeepsHome, Archive
<1>. QED
  BY <1>1, <1>2, <1>3, <1>4 DEF Archive

Before == Typed /\ AccountsTyped' /\ CardsTyped /\ Archive
After  == CardsTyped' /\ Archive' /\ proven \subseteq proven' /\ \A i \in Invites : MovesInvite(i)

LEMMA KeptHomes ==
    ASSUME Before, CardsTyped', UNCHANGED invitations, ProvenMove, proven \subseteq proven',
           \A k \in Cards : MovesCard(k), \A a \in Accounts : KeepsHome(a)
    PROVE  After
  BY KeptArchive DEF Before, After, MovesInvite

LEMMA OneCard ==
    ASSUME Before, NEW k \in Cards, cards[k] \in CardRows, NEW row \in CardRows, cards' = [cards EXCEPT ![k] = row],
           row.merged = cards[k].merged, row.active => cards[k].active \/ cards[k].merged = Nil
    PROVE  CardsTyped' /\ \A q \in Cards : MovesCard(q)
  BY DEF Before, CardsTyped, MovesCard

(* A step that only saves one account, its card the same. *)
LEMMA OneHome ==
    ASSUME Before, UNCHANGED <<cards, invitations, proven>>, NEW a \in Accounts, HasRow(a), NEW row \in AccountRows,
           accounts' = [accounts EXCEPT ![a] = row], row.card = accounts[a].card, row.pending => accounts[a].pending
    PROVE  After
<1>1. \A c \in Accounts : KeepsHome(c)
  BY DEF KeepsHome, Before, Typed, AccountsTyped
<1>2. CardsTyped' /\ ProvenMove /\ \A k \in Cards : MovesCard(k)
  BY DEF Before, CardsTyped, ProvenMove, MovesCard
<1>. QED
  BY <1>1, <1>2, KeptHomes

(* A step that leaves accounts and invitations alone. *)
LEMMA CardsOnly ==
    ASSUME Before, CardsTyped', UNCHANGED <<accounts, invitations, proven>>, \A k \in Cards : MovesCard(k)
    PROVE  After
  BY KeptHomes DEF KeepsHome, ProvenMove

LEMMA ArchiveStep ==
    ASSUME Before, [GNext]_gvars
    PROVE  After
<1>r. ASSUME NEW a \in Accounts, HasRow(a) PROVE accounts[a] \in AccountRows /\ accounts[a].card \in Cards
  BY <1>r DEF Before, Typed, AccountsTyped, AccountRows
<1>k. ASSUME NEW k \in Cards, IsRow(cards[k]) PROVE cards[k] \in CardRows
  BY <1>k DEF Before, CardsTyped
<1>q. UNCHANGED <<cards, accounts, invitations, proven>> => After
  BY CardsOnly DEF Before, CardsTyped, MovesCard
<1>1. ASSUME NEW a \in Accounts, ExpireRegistration(a) PROVE After
  <2>1. /\ HasRow(a) /\ accounts[a].pending /\ UNCHANGED <<cards, invitations, proven>>
        /\ accounts' = [accounts EXCEPT ![a] = [accounts[a] EXCEPT !.expired = TRUE]]
    BY <1>1 DEF ExpireRegistration
  <2>2. [accounts[a] EXCEPT !.expired = TRUE].card = accounts[a].card
    BY <1>r, <2>1 DEF AccountRows
  <2>. QED
    BY <1>r, <2>1, <2>2, RowChanges, OneHome
<1>2. ASSUME NEW b \in Browsers, NEW l \in inbox, ResetPassword(b, l) PROVE After
  <2>1. l.account \in Accounts /\ fresh \in 0 .. MaxPassword
    BY DEF Before, Typed, LettersTyped, Letters, AccountsTyped
  <2>. DEFINE a == l.account
             row == [accounts[a] EXCEPT !.password = fresh]
  <2>2. HasRow(a) /\ UNCHANGED <<cards, invitations, proven>> /\ accounts' = [accounts EXCEPT ![a] = row]
    BY <1>2, <2>1 DEF ResetPassword, ResetFromToken, MayEnter
  <2>3. row \in AccountRows
    BY <1>r, <2>1, <2>2, RowChanges
  <2>4. row.card = accounts[a].card /\ row.pending = accounts[a].pending
    BY <1>r, <2>1, <2>2 DEF AccountRows
  <2>. QED
    BY <2>1, <2>2, <2>3, <2>4, OneHome
<1>3. ASSUME NEW b \in Browsers, Login(b) PROVE After
  <2>. DEFINE a == entering[b].account
             row == [accounts[a] EXCEPT !.used = TRUE]
  <2>1. a \in Accounts /\ HasRow(a) /\ UNCHANGED <<cards, invitations, proven>> /\ accounts' = [accounts EXCEPT ![a] = row]
    BY <1>3 DEF Login, Before, Typed, BrowsersTyped, Entries
  <2>2. row \in AccountRows
    BY <1>r, <2>1, RowChanges
  <2>3. row.card = accounts[a].card /\ row.pending = accounts[a].pending
    BY <1>r, <2>1 DEF AccountRows
  <2>. QED
    BY <2>1, <2>2, <2>3, OneHome
<1>4. ASSUME SaveAccountToggle PROVE After
  <2>. DEFINE a == staff.id
             row == [accounts[a] EXCEPT !.active = staff.to]
  <2>1. /\ a \in Accounts /\ HasRow(a) /\ staff.to \in BOOLEAN /\ UNCHANGED <<cards, invitations, proven>>
        /\ accounts' = [accounts EXCEPT ![a] = row]
    BY <1>4 DEF SaveAccountToggle, Before, Typed, StaffTyped
  <2>2. row \in AccountRows
    BY <1>r, <2>1, RowChanges
  <2>3. row.card = accounts[a].card /\ row.pending = accounts[a].pending
    BY <1>r, <2>1 DEF AccountRows
  <2>. QED
    BY <2>1, <2>2, <2>3, OneHome
<1>5. ASSUME NEW b \in Browsers, NEW l \in inbox, Verify(b, l) PROVE After
  <2>1. l.account \in Accounts /\ l.email \in Emails /\ fresh \in 0 .. MaxPassword
    BY DEF Before, Typed, LettersTyped, Letters, AccountsTyped
  <2>. DEFINE a == l.account
             k == accounts[a].card
             card == [cards[k] EXCEPT !.active = TRUE, !.email = l.email]
             row == [accounts[a] EXCEPT !.verified = TRUE, !.pending = FALSE, !.expired = FALSE, !.password = fresh]
  <2>2. /\ HasRow(a) /\ UNCHANGED invitations /\ proven' = proven \cup {a}
        /\ accounts' = [accounts EXCEPT ![a] = row]
    BY <1>5, <2>1 DEF Verify, VerifiedClientFromToken, Verifiable
  <2>3. k \in Cards /\ cards[k] \in CardRows /\ cards[k].merged = Nil
    BY <1>r, <1>k, <2>1, <2>2 DEF Before, Archive, Homes, Card
  <2>4. cards' = [cards EXCEPT ![k] = card]
    BY <1>5, <2>3 DEF Verify, VerifiedClientFromToken, Before, CardsTyped
  <2>5. card \in CardRows /\ card.merged = Nil
    BY <2>1, <2>3 DEF CardRows
  <2>6. CardsTyped' /\ \A q \in Cards : MovesCard(q)
    BY <2>3, <2>4, <2>5, OneCard
  <2>7. row \in AccountRows /\ row.card = k /\ ~row.pending
    <3>1. row \in AccountRows
      BY <1>r, <2>1, <2>2, RowChanges
    <3>2. row.card = k /\ ~row.pending
      BY <1>r, <2>1, <2>2 DEF AccountRows
    <3>. QED
      BY <3>1, <3>2
  <2>8. ProvenMove /\ \A c \in Accounts : KeepsHome(c)
    BY <2>1, <2>2, <2>7 DEF ProvenMove, KeepsHome, Before, Typed, AccountsTyped
  <2>. QED
    BY <2>2, <2>6, <2>8, KeptHomes
<1>6. ASSUME NEW k \in Cards, UseCard(k) PROVE After
  <2>1. /\ cards[k] \in CardRows /\ cards' = [cards EXCEPT ![k] = [cards[k] EXCEPT !.busy = TRUE]]
        /\ UNCHANGED <<accounts, invitations, proven>>
    BY <1>6, <1>k DEF UseCard, OpenCards
  <2>2. /\ [cards[k] EXCEPT !.busy = TRUE].merged = cards[k].merged
        /\ [cards[k] EXCEPT !.busy = TRUE].active = cards[k].active
    BY <2>1 DEF CardRows
  <2>. QED
    BY <2>1, <2>2, CardChanges, OneCard, CardsOnly
<1>7. ASSUME NEW k \in Cards, NEW w \in People, NEW e \in Emails \cup {NoEmail}, CreateCard(k, w, e) PROVE After
  <2>. DEFINE row == [source |-> "professional", active |-> TRUE, merged |-> Nil, who |-> w, email |-> e,
                     busy |-> FALSE, dismissed |-> Nil]
  <2>1. cards[k] = Nil /\ cards' = [cards EXCEPT ![k] = row] /\ UNCHANGED <<accounts, invitations, proven>>
    BY <1>7 DEF CreateCard
  <2>2. row \in CardRows /\ row.merged = Nil
    BY DEF CardRows
  <2>3. CardsTyped' /\ \A q \in Cards : MovesCard(q)
    BY <2>1, <2>2 DEF Before, CardsTyped, MovesCard
  <2>. QED
    BY <2>1, <2>3, CardsOnly
<1>8. ASSUME SaveCardToggle PROVE After
  <2>. DEFINE k == staff.id
             row == [cards[k] EXCEPT !.active = staff.to]
  <2>1. /\ k \in Cards /\ cards[k] \in CardRows /\ staff.to \in BOOLEAN /\ (staff.to => cards[k].merged = Nil)
        /\ cards' = [cards EXCEPT ![k] = row] /\ UNCHANGED <<accounts, invitations, proven>>
    BY <1>8, <1>k DEF SaveCardToggle, Savable, Before, Typed, StaffTyped
  <2>2. row.merged = cards[k].merged /\ row.active = staff.to
    BY <2>1 DEF CardRows
  <2>. QED
    BY <2>1, <2>2, CardChanges, OneCard, CardsOnly
<1>9. ASSUME NEW p \in Cards, NEW o \in Cards, NEW a \in Accounts, Dismiss(p, o, a) PROVE After
  <2>. DEFINE row == [cards[o] EXCEPT !.dismissed = Fingerprint(p, a)]
  <2>1. /\ cards[o] \in CardRows /\ cards[p] \in CardRows /\ HasRow(a)
        /\ cards' = [cards EXCEPT ![o] = row] /\ UNCHANGED <<accounts, invitations, proven>>
    BY <1>9, <1>k DEF Dismiss, MergeCandidate, OpenCards
  <2>2. Fingerprint(p, a) \in Fingerprints
    BY <1>r, <2>1 DEF Fingerprint, Fingerprints, CardRows, AccountRows
  <2>3. row.merged = cards[o].merged /\ row.active = cards[o].active
    BY <2>1 DEF CardRows
  <2>. QED
    BY <2>1, <2>2, <2>3, CardChanges, OneCard, CardsOnly
<1>10. ASSUME EditCard PROVE After
  <2>. PICK k \in OpenCards, w \in People, e \in Emails \cup {NoEmail} :
          \/ cards' = [cards EXCEPT ![k].who = w, ![k].email = e] /\ UNCHANGED accounts
          \/ \E a \in Accounts : e \in Emails /\ HasRow(a) /\ ChangeAddress(k, w, a, e)
    BY <1>10 DEF EditCard
  <2>0. cards' = [cards EXCEPT ![k].who = w, ![k].email = e]
    BY DEF ChangeAddress
  <2>. DEFINE card == [cards[k] EXCEPT !.who = w, !.email = e]
  <2>1. k \in Cards /\ cards[k] \in CardRows /\ UNCHANGED <<invitations, proven>>
    BY <1>10, <1>k DEF EditCard, OpenCards
  <2>2. cards' = [cards EXCEPT ![k] = card]
    BY <2>0, <2>1 DEF Before, CardsTyped
  <2>3. card \in CardRows
    BY <2>1, CardChanges
  <2>4. card.merged = cards[k].merged /\ card.active = cards[k].active
    BY <2>1 DEF CardRows
  <2>5. CardsTyped' /\ \A q \in Cards : MovesCard(q)
    BY <2>1, <2>2, <2>3, <2>4, OneCard
  <2>6. \A c \in Accounts : KeepsHome(c)
    <3>1. CASE UNCHANGED accounts
      BY <3>1 DEF KeepsHome
    <3>2. ASSUME NEW a \in Accounts, e \in Emails, HasRow(a), ChangeAddress(k, w, a, e) PROVE \A c \in Accounts : KeepsHome(c)
      <4>. DEFINE row == [accounts[a] EXCEPT !.email = e, !.verified = FALSE, !.password = fresh]
      <4>1. accounts[a] \in AccountRows /\ fresh \in 0 .. MaxPassword
        BY <1>r, <3>2 DEF Before, Typed, AccountsTyped
      <4>2. accounts' = [accounts EXCEPT ![a] = row]
        BY <3>2 DEF ChangeAddress, Before, Typed, AccountsTyped
      <4>3. row \in AccountRows
        BY <3>2, <4>1, RowChanges
      <4>4. row.card = accounts[a].card /\ row.pending = accounts[a].pending
        BY <4>1 DEF AccountRows
      <4>. QED
        BY <3>2, <4>2, <4>3, <4>4 DEF KeepsHome, Before, Typed, AccountsTyped
    <3>. QED
      BY <3>1, <3>2
  <2>. QED
    BY <2>1, <2>5, <2>6, KeptHomes DEF ProvenMove
<1>11. ASSUME Invite \/ EndInvite PROVE After
  <2>1. UNCHANGED <<cards, accounts, proven>>
    BY <1>11 DEF Invite, EndInvite
  <2>2. ASSUME Invite PROVE \A i \in Invites : MovesInvite(i)
    <3>. PICK i \in Invites, k \in OpenCards : invitations[i] = Nil /\ ~HasAccount(k) /\ CreateInvitation(i, k)
      BY <2>2 DEF Invite
    <3>1. k \in Cards
      BY DEF OpenCards
    <3>2. \A j \in Invites : IsRow(invitations[j]) =>
             /\ invitations[j] \in InviteRows /\ [invitations[j] EXCEPT !.state = "revoked"] \in InviteRows
             /\ [invitations[j] EXCEPT !.state = "revoked"].card = invitations[j].card
             /\ [invitations[j] EXCEPT !.state = "revoked"].state = "revoked"
      BY DEF Before, Typed, AccountsTyped, InviteRows
    <3>3. /\ [card |-> k, state |-> "open", expired |-> FALSE] \in InviteRows
          /\ invitations'[i] = [card |-> k, state |-> "open", expired |-> FALSE]
      BY <3>1 DEF InviteRows, CreateInvitation
    <3>. QED
      BY <3>2, <3>3 DEF CreateInvitation, MovesInvite
  <2>3. ASSUME EndInvite PROVE \A i \in Invites : MovesInvite(i)
    <3>. PICK i \in Invites : /\ IsRow(invitations[i]) /\ invitations[i].state = "open"
                             /\ \/ invitations' = [invitations EXCEPT ![i] = [invitations[i] EXCEPT !.expired = TRUE]]
                                   /\ ~invitations[i].expired
                                \/ invitations' = [invitations EXCEPT ![i] = [invitations[i] EXCEPT !.state = "revoked"]]
      BY <2>3 DEF EndInvite
    <3>1. invitations[i] \in InviteRows
      BY DEF Before, Typed, AccountsTyped
    <3>2. \A change \in {[invitations[i] EXCEPT !.expired = TRUE], [invitations[i] EXCEPT !.state = "revoked"]} :
             change \in InviteRows /\ change.card = invitations[i].card
      BY <3>1 DEF InviteRows
    <3>3. [invitations[i] EXCEPT !.state = "revoked"].state = "revoked"
      BY <3>1 DEF InviteRows
    <3>. QED
      BY <3>1, <3>2, <3>3 DEF MovesInvite, Before, Typed, AccountsTyped
  <2>4. CardsTyped' /\ ProvenMove /\ (\A k \in Cards : MovesCard(k)) /\ \A a \in Accounts : KeepsHome(a)
    BY <2>1 DEF Before, CardsTyped, ProvenMove, MovesCard, KeepsHome
  <2>. QED
    BY <1>11, <2>1, <2>2, <2>3, <2>4, KeptArchive DEF Before, After
<1>12. ASSUME Register PROVE After
  <2>. PICK e \in Emails, w \in People, k \in Cards, a \in Accounts : RegisterClientAccess(e, w, k, a)
    BY <1>12 DEF Register
  <2>. DEFINE holders == HoldersOf(e)
             homes == {accounts[h].card : h \in holders}
             card == [source |-> "other", active |-> FALSE, merged |-> Nil, who |-> w, email |-> e, busy |-> FALSE,
                      dismissed |-> Nil]
             row == NewAccount(k, e, fresh, TRUE)
  <2>1. /\ cards[k] = Nil /\ accounts[a] = Nil /\ UNCHANGED <<invitations, proven>>
        /\ accounts' = [h \in Accounts |-> IF h = a THEN row ELSE IF h \in holders THEN Gone ELSE accounts[h]]
        /\ cards' = [q \in Cards |-> IF q = k THEN card ELSE IF q \in homes THEN Gone ELSE cards[q]]
    BY <1>12 DEF Register, RegisterClientAccess
  <2>2. \A h \in holders : h \in Accounts /\ HasRow(h) /\ accounts[h].pending
    BY DEF RegisterClientAccess, Purgeable, Candidate, HoldersOf
  <2>3. card \in CardRows /\ card.merged = Nil /\ ~card.active /\ row.card = k
    BY DEF CardRows, NewAccount
  <2>4. CardsTyped'
    BY <2>1, <2>3 DEF CardsTyped, Before
  <2>5. ASSUME NEW c \in Accounts, HasRow(c)', c # a
        PROVE  HasRow(c) /\ accounts'[c] = accounts[c] /\ Card(c)' = Card(c) /\ accounts[c].card # k
    <3>1. c \notin holders /\ HasRow(c) /\ accounts'[c] = accounts[c]
      BY <2>1, <2>5
    <3>2. accounts[c].card \in Cards /\ accounts[c].card \notin homes /\ accounts[c].card # k
      BY <1>r, <2>1, <2>2, <3>1 DEF Before, Archive, Homes, Card
    <3>. QED
      BY <2>1, <3>1, <3>2 DEF Card
  <2>6. ArchivedIdle'
    BY <2>1, <2>3 DEF ArchivedIdle, Archived, Before, Archive
  <2>7. Homes'
    <3>1. IsRow(cards'[k]) /\ cards'[k].merged = Nil /\ accounts'[a].card = k
      BY <2>1, <2>3
    <3>. QED
      BY <2>5, <3>1 DEF Homes, Before, Archive, Card
  <2>8. InvitedCards'
    <3>. SUFFICES ASSUME NEW i \in Invites, IsRow(invitations[i])
                  PROVE  /\ IsRow(cards'[invitations[i].card])
                         /\ \A c \in Accounts : HasRow(c)' /\ accounts'[c].pending
                                               => accounts'[c].card # invitations[i].card
      BY <2>1 DEF InvitedCards
    <3>1. invitations[i].card \in Cards /\ IsRow(cards[invitations[i].card])
      BY DEF Before, Archive, InvitedCards, Typed, AccountsTyped, InviteRows
    <3>2. invitations[i].card \notin homes /\ invitations[i].card # k
      BY <2>1, <2>2, <3>1 DEF Before, Archive, InvitedCards
    <3>. QED
      BY <2>1, <2>3, <2>5, <3>1, <3>2 DEF Before, Archive, InvitedCards
  <2>9. ProvenStay'
    BY <2>1, <2>2 DEF ProvenStay, Before, Archive
  <2>. QED
    BY <2>1, <2>4, <2>6, <2>7, <2>8, <2>9 DEF After, Archive, MovesInvite
<1>13. ASSUME Purge PROVE After
  <2>. DEFINE purged == {a \in Accounts : Purgeable(a)}
             homes == {accounts[a].card : a \in purged}
  <2>1. /\ UNCHANGED <<invitations, proven>>
        /\ accounts' = [a \in Accounts |-> IF a \in purged THEN Gone ELSE accounts[a]]
        /\ cards' = [k \in Cards |-> IF k \in homes THEN Gone ELSE cards[k]]
    BY <1>13 DEF Purge
  <2>2. \A h \in purged : h \in Accounts /\ HasRow(h) /\ accounts[h].pending
    BY DEF Purgeable, Candidate
  <2>3. ASSUME NEW c \in Accounts, HasRow(c)'
        PROVE  HasRow(c) /\ accounts'[c] = accounts[c] /\ Card(c)' = Card(c)
    <3>1. c \notin purged /\ HasRow(c) /\ accounts'[c] = accounts[c]
      BY <2>1, <2>3
    <3>2. accounts[c].card \in Cards /\ accounts[c].card \notin homes
      BY <1>r, <2>2, <3>1 DEF Before, Archive, Homes
    <3>. QED
      BY <2>1, <3>1, <3>2 DEF Card
  <2>4. CardsTyped' /\ ArchivedIdle'
    BY <2>1 DEF CardsTyped, ArchivedIdle, Archived, Before, Archive
  <2>5. Homes'
    BY <2>3 DEF Homes, Before, Archive
  <2>6. InvitedCards'
    <3>. SUFFICES ASSUME NEW i \in Invites, IsRow(invitations[i])
                  PROVE  /\ IsRow(cards'[invitations[i].card])
                         /\ \A c \in Accounts : HasRow(c)' /\ accounts'[c].pending
                                               => accounts'[c].card # invitations[i].card
      BY <2>1 DEF InvitedCards
    <3>1. invitations[i].card \in Cards /\ IsRow(cards[invitations[i].card])
      BY DEF Before, Archive, InvitedCards, Typed, AccountsTyped, InviteRows
    <3>2. invitations[i].card \notin homes
      BY <2>2 DEF Before, Archive, InvitedCards
    <3>. QED
      BY <2>1, <2>3, <3>1, <3>2 DEF Before, Archive, InvitedCards
  <2>7. ProvenStay'
    BY <2>1, <2>2 DEF ProvenStay, Before, Archive
  <2>. QED
    BY <2>1, <2>4, <2>5, <2>6, <2>7 DEF After, Archive, MovesInvite
<1>14. ASSUME NEW b \in Browsers, Activate(b) PROVE After
  <2>. PICK e \in Emails, a \in Accounts : ActivateClaimed(claim[b], e, a)
    BY <1>14 DEF Activate
  <2>. DEFINE i == claim[b]
             k == invitations[i].card
             row == NewAccount(k, e, fresh, FALSE)
             used == [invitations[i] EXCEPT !.state = "used"]
  <2>1. /\ i \in Invites /\ invitations[i] \in InviteRows /\ invitations[i].state = "open" /\ ~invitations[i].expired
        /\ cards[k].active /\ ~HasAccount(k)
    BY <1>14 DEF Activate, Claimed, Available, Before, Typed, AccountsTyped, BrowsersTyped
  <2>2. /\ accounts' = [accounts EXCEPT ![a] = row] /\ accounts[a] = Nil
        /\ invitations' = [invitations EXCEPT ![i] = used] /\ UNCHANGED <<cards, proven>>
    BY <1>14, <2>1 DEF Activate, ActivateClaimed, Before, Typed, AccountsTyped
  <2>3. used \in InviteRows /\ used.card = k /\ used.state = "used" /\ k \in Cards
    BY <2>1 DEF InviteRows
  <2>4. IsRow(cards[k]) /\ cards[k].merged = Nil
    BY <2>1, <2>3 DEF Before, Archive, ArchivedIdle, InvitedCards, Archived
  <2>5. row.card = k /\ ~row.pending
    BY DEF NewAccount
  <2>6. ASSUME NEW c \in Accounts, c # a PROVE accounts'[c] = accounts[c]
    BY <2>2, <2>6 DEF Before, Typed, AccountsTyped
  <2>7. accounts'[a] = row
    BY <2>2 DEF Before, Typed, AccountsTyped
  <2>8. ASSUME NEW j \in Invites
        PROVE  MovesInvite(j) /\ (IsRow(invitations'[j]) => IsRow(invitations[j]) /\ invitations'[j].card = invitations[j].card
                                     /\ (invitations'[j].state = "open" => invitations[j].state = "open"))
    BY <2>1, <2>2, <2>3 DEF MovesInvite, Before, Typed, AccountsTyped
  <2>9. CardsTyped' /\ ArchivedIdle'
    BY <2>2, <2>8 DEF CardsTyped, ArchivedIdle, Archived, Before, Archive
  <2>10. Homes'
    <3>1. ASSUME NEW c \in Accounts, HasRow(c)', c # a
          PROVE  HasRow(c) /\ accounts'[c] = accounts[c] /\ accounts[c].card # k
      BY <2>1, <2>6, <3>1 DEF HasAccount
    <3>2. accounts'[a].card = k
      BY <2>5, <2>7
    <3>3. ASSUME NEW c \in Accounts, HasRow(c)'
          PROVE  IsRow(cards'[accounts'[c].card]) /\ cards'[accounts'[c].card].merged = Nil
      <4>1. CASE c = a
        BY <2>2, <2>4, <3>2, <4>1
      <4>2. CASE c # a
        BY <2>2, <3>1, <3>3, <4>2 DEF Homes, Before, Archive, Card
      <4>. QED
        BY <4>1, <4>2
    <3>4. ASSUME NEW c \in Accounts, NEW d \in Accounts, HasRow(c)', HasRow(d)', accounts'[c].card = accounts'[d].card
          PROVE  c = d
      <4>1. CASE c = a \/ d = a
        BY <3>1, <3>2, <3>4, <4>1
      <4>2. CASE c # a /\ d # a
        BY <3>1, <3>4, <4>2 DEF Homes, Before, Archive
      <4>. QED
        BY <4>1, <4>2
    <3>. QED
      BY <3>3, <3>4 DEF Homes, Card
  <2>11. InvitedCards'
    <3>. SUFFICES ASSUME NEW j \in Invites, IsRow(invitations'[j])
                  PROVE  /\ IsRow(cards'[invitations'[j].card])
                         /\ \A c \in Accounts : HasRow(c)' /\ accounts'[c].pending
                                               => accounts'[c].card # invitations'[j].card
      BY DEF InvitedCards
    <3>1. IsRow(invitations[j]) /\ invitations'[j].card = invitations[j].card
      BY <2>8
    <3>2. \A c \in Accounts : HasRow(c)' /\ accounts'[c].pending => c # a /\ accounts'[c] = accounts[c]
      BY <2>5, <2>6, <2>7
    <3>. QED
      BY <2>2, <3>1, <3>2 DEF Before, Archive, InvitedCards
  <2>12. ProvenStay'
    BY <2>2, <2>6 DEF ProvenStay, Before, Archive
  <2>. QED
    BY <2>2, <2>8, <2>9, <2>10, <2>11, <2>12 DEF After, Archive
<1>15. ASSUME NEW p \in Cards, NEW o \in Cards, NEW a \in Accounts, Merge(p, o, a) PROVE After
  <2>. DEFINE row == [accounts[a] EXCEPT !.card = p]
             left == [cards[o] EXCEPT !.active = FALSE, !.merged = p, !.busy = FALSE, !.dismissed = Nil]
             kept == [cards[p] EXCEPT !.busy = cards[p].busy \/ cards[o].busy]
             cut(i) == IsRow(invitations[i]) /\ invitations[i].card = o /\ invitations[i].state = "open"
             revoked(i) == [invitations[i] EXCEPT !.state = "revoked"]
  <2>1. /\ p # o /\ HasRow(a) /\ accounts[a].card = o /\ ~accounts[a].pending /\ ~HasAccount(p)
        /\ cards[p] \in CardRows /\ cards[o] \in CardRows /\ cards[p].merged = Nil
        /\ accounts' = [accounts EXCEPT ![a] = row] /\ UNCHANGED proven
        /\ invitations' = [i \in Invites |-> IF cut(i) THEN revoked(i) ELSE invitations[i]]
    BY <1>15, <1>k DEF Merge, MergeCandidate, OpenCards
  <2>2. cards' = [[cards EXCEPT ![o] = left] EXCEPT ![p] = kept]
    BY <1>15, <2>1 DEF Merge, Before, CardsTyped
  <2>3. /\ left \in CardRows /\ kept \in CardRows /\ ~left.active /\ kept.merged = Nil
    <3>1. left \in CardRows
      BY <2>1 DEF CardRows
    <3>2. (cards[p].busy \/ cards[o].busy) \in BOOLEAN
      OBVIOUS
    <3>3. kept \in CardRows
      BY <2>1, <3>2, CardChanges
    <3>4. ~left.active /\ kept.merged = Nil
      BY <2>1 DEF CardRows
    <3>. QED
      BY <3>1, <3>3, <3>4
  <2>4. /\ cards'[o] = left /\ cards'[p] = kept /\ CardsTyped'
        /\ \A k \in Cards \ {o, p} : cards'[k] = cards[k]
    BY <2>1, <2>2, <2>3 DEF Before, CardsTyped
  <2>5. row \in AccountRows /\ row.card = p /\ ~row.pending
    <3>1. row \in AccountRows
      BY <1>r, <2>1, RowChanges
    <3>2. row.card = p /\ ~row.pending
      BY <1>r, <2>1 DEF AccountRows
    <3>. QED
      BY <3>1, <3>2
  <2>6. accounts'[a] = row /\ \A c \in Accounts \ {a} : accounts'[c] = accounts[c]
    BY <2>1 DEF Before, Typed, AccountsTyped
  <2>7. ASSUME NEW i \in Invites
        PROVE  /\ MovesInvite(i)
               /\ IsRow(invitations'[i]) => /\ IsRow(invitations[i]) /\ invitations'[i].card = invitations[i].card
                                           /\ (invitations'[i].state = "open" =>
                                                 invitations[i].state = "open" /\ invitations[i].card # o)
    <3>1. IsRow(invitations[i]) => /\ invitations[i] \in InviteRows /\ revoked(i) \in InviteRows
                                   /\ revoked(i).card = invitations[i].card /\ revoked(i).state = "revoked"
      BY DEF Before, Typed, AccountsTyped, InviteRows
    <3>. QED
      BY <2>1, <3>1 DEF MovesInvite
  <2>8. ArchivedIdle'
    <3>. SUFFICES ASSUME NEW k \in Cards, Archived(k)'
                  PROVE  /\ ~cards'[k].active
                         /\ \A i \in Invites : IsRow(invitations'[i]) /\ invitations'[i].card = k
                                                 => invitations'[i].state # "open"
      BY DEF ArchivedIdle
    <3>1. k # p
      BY <2>3, <2>4 DEF Archived
    <3>2. CASE k = o
      BY <2>3, <2>4, <2>7, <3>2
    <3>3. CASE k # o
      BY <2>4, <2>7, <3>1, <3>3 DEF Archived, Before, Archive, ArchivedIdle
    <3>. QED
      BY <3>2, <3>3
  <2>9. Homes'
    <3>1. ASSUME NEW c \in Accounts, HasRow(c)', c # a
          PROVE  /\ HasRow(c) /\ accounts'[c] = accounts[c] /\ accounts[c].card \in Cards
                 /\ accounts[c].card # p /\ accounts[c].card # o
      BY <1>r, <2>1, <2>6, <3>1 DEF HasAccount, Before, Archive, Homes
    <3>2. accounts'[a].card = p /\ IsRow(cards'[p]) /\ cards'[p].merged = Nil
      BY <2>3, <2>4, <2>5, <2>6
    <3>3. ASSUME NEW c \in Accounts, HasRow(c)'
          PROVE  IsRow(cards'[accounts'[c].card]) /\ cards'[accounts'[c].card].merged = Nil
      <4>1. CASE c = a
        BY <3>2, <4>1
      <4>2. CASE c # a
        BY <2>4, <3>1, <3>3, <4>2 DEF Homes, Before, Archive, Card
      <4>. QED
        BY <4>1, <4>2
    <3>4. ASSUME NEW c \in Accounts, NEW d \in Accounts, HasRow(c)', HasRow(d)', accounts'[c].card = accounts'[d].card
          PROVE  c = d
      <4>1. CASE c = a \/ d = a
        BY <3>1, <3>2, <3>4, <4>1
      <4>2. CASE c # a /\ d # a
        BY <3>1, <3>4, <4>2 DEF Homes, Before, Archive
      <4>. QED
        BY <4>1, <4>2
    <3>. QED
      BY <3>3, <3>4 DEF Homes, Card
  <2>10. InvitedCards'
    <3>. SUFFICES ASSUME NEW i \in Invites, IsRow(invitations'[i])
                  PROVE  /\ IsRow(cards'[invitations'[i].card])
                         /\ \A c \in Accounts : HasRow(c)' /\ accounts'[c].pending
                                               => accounts'[c].card # invitations'[i].card
      BY DEF InvitedCards
    <3>1. IsRow(invitations[i]) /\ invitations'[i].card = invitations[i].card /\ invitations[i].card \in Cards
      BY <2>7 DEF Before, Typed, AccountsTyped, InviteRows
    <3>2. \A c \in Accounts : HasRow(c)' /\ accounts'[c].pending => c # a /\ accounts'[c] = accounts[c]
      BY <2>5, <2>6
    <3>3. IsRow(cards'[invitations[i].card])
      BY <2>3, <2>4, <3>1 DEF Before, Archive, InvitedCards
    <3>. QED
      BY <3>1, <3>2, <3>3 DEF Before, Archive, InvitedCards
  <2>11. ProvenStay'
    BY <2>1, <2>5, <2>6 DEF ProvenStay, Before, Archive
  <2>. QED
    BY <2>1, <2>4, <2>7, <2>8, <2>9, <2>10, <2>11 DEF After, Archive
<1>16. ASSUME SaveContact PROVE After
  <2>1. /\ UNCHANGED <<accounts, invitations, proven>>
        /\ IsRow(cards[desk.row.owner]) /\ (desk.row.linked # Nil => IsRow(cards[desk.row.linked]))
        /\ cards' = [k \in Cards |-> IF k \in {desk.row.owner, desk.row.linked}
                                     THEN [cards[k] EXCEPT !.busy = TRUE] ELSE cards[k]]
    BY <1>16 DEF SaveContact
  <2>2. ASSUME NEW k \in Cards, k \in {desk.row.owner, desk.row.linked} PROVE cards[k] \in CardRows
    BY <1>k, <2>1, <2>2
  <2>3. ASSUME NEW k \in Cards PROVE cards'[k] \in CardRows \cup {Nil, Gone} /\ MovesCard(k)
    <3>1. CASE k \in {desk.row.owner, desk.row.linked}
      <4>1. cards[k] \in CardRows /\ cards'[k] = [cards[k] EXCEPT !.busy = TRUE]
        BY <2>1, <2>2, <3>1
      <4>2. cards'[k] \in CardRows /\ cards'[k].merged = cards[k].merged /\ cards'[k].active = cards[k].active
        BY <4>1 DEF CardRows
      <4>. QED
        BY <4>1, <4>2 DEF MovesCard
    <3>2. CASE k \notin {desk.row.owner, desk.row.linked}
      BY <2>1, <3>2 DEF MovesCard, Before, CardsTyped
    <3>. QED
      BY <3>1, <3>2
  <2>4. CardsTyped'
    BY <2>1, <2>3 DEF CardsTyped
  <2>. QED
    BY <2>1, <2>3, <2>4, CardsOnly
<1>17. ASSUME QuickCreate PROVE After
  <2>. PICK k \in Cards, w \in People, c \in Contacts, l \in OpenCards, online \in BOOLEAN :
            SaveWithPerson(k, w, c, l, online)
    BY <1>17 DEF QuickCreate
  <2>. DEFINE row == [source |-> "professional", active |-> TRUE, merged |-> Nil, who |-> w,
                      email |-> NoEmail, busy |-> TRUE, dismissed |-> Nil]
             used == [cards[l] EXCEPT !.busy = TRUE]
  <2>1. l \in Cards /\ cards[l] \in CardRows /\ l # k
    BY <1>k DEF OpenCards, SaveWithPerson
  <2>2. /\ UNCHANGED <<accounts, invitations, proven>>
        /\ cards' = [cards EXCEPT ![l] = used, ![k] = row]
    BY <1>17, <2>1 DEF QuickCreate, SaveWithPerson
  <2>3. row \in CardRows /\ row.merged = Nil
    BY DEF CardRows
  <2>4. used \in CardRows /\ used.merged = cards[l].merged /\ used.active = cards[l].active
    BY <2>1 DEF CardRows
  <2>5. /\ cards'[k] = row /\ cards'[l] = used /\ \A q \in Cards \ {k, l} : cards'[q] = cards[q]
        /\ cards' \in [Cards -> CardRows \cup {Nil, Gone}]
    BY <2>1, <2>2, <2>3, <2>4 DEF Before, CardsTyped
  <2>6. CardsTyped' /\ \A q \in Cards : MovesCard(q)
    BY <2>1, <2>3, <2>4, <2>5 DEF CardsTyped, MovesCard, SaveWithPerson
  <2>. QED
    BY <2>2, <2>6, CardsOnly
<1>18. ASSUME NEW b \in Browsers, BookOnline(b) PROVE After
  <2>. PICK k \in Cards : LockedIdentity(page[b], k) /\ cards' = [cards EXCEPT ![k].busy = TRUE]
    BY <1>18 DEF BookOnline
  <2>. DEFINE used == [cards[k] EXCEPT !.busy = TRUE]
  <2>1. cards[k] \in CardRows /\ cards' = [cards EXCEPT ![k] = used]
    BY <1>k DEF LockedIdentity, OpenCards
  <2>2. used \in CardRows /\ used.merged = cards[k].merged /\ used.active = cards[k].active
    BY <2>1 DEF CardRows
  <2>3. UNCHANGED <<accounts, invitations, proven>>
    BY <1>18 DEF BookOnline
  <2>. QED
    BY <2>1, <2>2, <2>3, OneCard, CardsOnly
<1>19. ASSUME \/ MailStep \/ ReadToggle \/ AbandonToggle \/ ToggleBusiness
              \/ \E a \in Accounts : Resend(a) \/ RequestReset(a)
              \/ \E b \in Browsers : Leave(b) \/ Claim(b) \/ DropClaim(b) \/ \E a \in Accounts : Authenticate(b, a)
       PROVE  After
  BY <1>q, <1>19 DEF MailStep, ReadToggle, AbandonToggle, ToggleBusiness, Resend, RequestReset, Leave, Claim,
                     DropClaim, Authenticate, rows
<1>20. ASSUME \/ OpenContactForm \/ ReadContact \/ ToggleContact \/ ToggleOnline \/ AbandonDesk
              \/ \E b \in Browsers : OpenPage(b) \/ ClosePage(b)
              \/ UNCHANGED gvars
       PROVE  After
  BY <1>q, <1>20 DEF OpenContactForm, ReadContact, ToggleContact, ToggleOnline, AbandonDesk, OpenPage, ClosePage,
                     gvars, vars, rows
<1>. QED
  BY <1>1, <1>2, <1>3, <1>4, <1>5, <1>6, <1>7, <1>8, <1>9, <1>10, <1>11, <1>12, <1>13, <1>14, <1>15, <1>16,
     <1>17, <1>18, <1>19, <1>20 DEF GNext, GRegistration, GVisits, GPanel, GSwitchCard, GMerge, Registration, Visits,
     PanelRows, Permissions, OnlineBooking

-----------------------------------------------------------------------------
LEMMA AlwaysArchived == GSpec => [](CardsTyped /\ Archive)
<1>1. GInit => CardsTyped /\ Archive
  BY DEF GInit, Init, CardsTyped, Archive, ArchivedIdle, Archived, Homes, InvitedCards, ProvenStay
<1>2. Typed /\ CardsTyped /\ Archive /\ [GNext]_gvars => (CardsTyped /\ Archive)'
  BY AccountStep, ArchiveStep DEF Before, After
<1>. QED
  BY <1>1, <1>2, AlwaysTyped, PTL DEF GSpec

(* A card left behind by a merge stays without use, account or open invitation, whatever *)
(* the panel still saves; an invitation that is over opens no account; and an account    *)
(* once verified is never purged (merge_client_records, set_professional_client_active,  *)
(* activate_client_invitation, purge_expired_public_registrations).                      *)
THEOREM OverForGood == GSpec => WhatIsOverStaysOver
<1>. DEFINE Kept ==
       /\ \A k \in Cards : Archived(k)' => Inert(k)'
       /\ \A i \in Invites :
             IsRow(invitations[i]) /\ (invitations[i].state # "open" \/ invitations[i].expired)
                => \/ invitations'[i] = invitations[i]
                   \/ invitations[i].state = "open" /\ invitations'[i].state = "revoked"
       /\ \A a \in proven : accounts'[a] # Gone
<1>1. Typed /\ CardsTyped /\ Archive /\ [GNext]_gvars => Kept
  <2>. SUFFICES ASSUME Typed, CardsTyped, Archive, [GNext]_gvars PROVE Kept
    OBVIOUS
  <2>1. After
    BY AccountStep, ArchiveStep DEF Before
  <2>2. ASSUME NEW k \in Cards, Archived(k)' PROVE Inert(k)'
    BY <2>1, <2>2 DEF After, Archive, ArchivedIdle, Homes, Inert, Archived, HasAccount, Card
  <2>3. ASSUME NEW i \in Invites, IsRow(invitations[i]), invitations[i].state # "open" \/ invitations[i].expired
        PROVE  \/ invitations'[i] = invitations[i]
               \/ invitations[i].state = "open" /\ invitations'[i].state = "revoked"
    BY <2>1, <2>3 DEF After, MovesInvite
  <2>4. ASSUME NEW a \in proven PROVE accounts'[a] # Gone
    BY <2>1, <2>4 DEF After, Archive, ProvenStay
  <2>. QED
    BY <2>2, <2>3, <2>4
<1>2. (Typed /\ CardsTyped /\ Archive) /\ [GNext]_gvars => [Kept]_vars
  BY <1>1
<1>3. GSpec => [](Typed /\ CardsTyped /\ Archive)
  BY AlwaysTyped, AlwaysArchived, PTL
<1>. QED
  BY <1>2, <1>3, PTL DEF GSpec, WhatIsOverStaysOver

-----------------------------------------------------------------------------
(* A booking commits only for a card its account's page would still offer, with the      *)
(* password the request was made with, whatever happened since it opened the page        *)
(* (_lock_public_booking_identity against get_bookable_clients).                         *)
THEOREM BooksWhatIsOffered == GSpec => BookedOnlyWhatIsOffered
<1>. DEFINE Offered == booked' # booked =>
                          /\ booked'.card \in OfferedCards(booked'.account)
                          /\ MayEnter(booked'.account)
                          /\ accounts[booked'.account].password = booked'.password
<1>1. ASSUME NEW b \in Browsers, BookOnline(b) PROVE Offered
  <2>1. PICK k \in Cards :
          /\ LockedIdentity(page[b], k)
          /\ booked' = [account |-> page[b].account, password |-> page[b].password, card |-> k]
    BY <1>1 DEF BookOnline
  <2>2. /\ MayEnter(page[b].account) /\ accounts[page[b].account].password = page[b].password
        /\ k \in OfferedCards(page[b].account)
    BY <2>1 DEF LockedIdentity, MayEnter, OfferedCards, Card
  <2>. QED
    BY <2>1, <2>2
<1>2. ASSUME GRegistration \/ GVisits \/ GPanel \/ GSwitchCard \/ GMerge \/ (ToggleBusiness /\ OfAccounts)
      PROVE  UNCHANGED booked
  BY <1>2 DEF GRegistration, GVisits, GPanel, GSwitchCard, GMerge, OfAccounts
<1>3. ASSUME Permissions \/ (\E b \in Browsers : OpenPage(b) \/ ClosePage(b)) \/ UNCHANGED gvars
      PROVE  UNCHANGED booked
  BY <1>3 DEF Permissions, OpenContactForm, SaveContact, QuickCreate, ReadContact, ToggleContact, ToggleOnline,
              AbandonDesk, OpenPage, ClosePage, gvars
<1>4. [GNext]_gvars => [Offered]_gvars
  BY <1>1, <1>2, <1>3 DEF GNext, OnlineBooking
<1>. QED
  BY <1>4, PTL DEF GSpec, BookedOnlyWhatIsOffered

-----------------------------------------------------------------------------
(* Contacts and grants.  A contact is typed, suits the others, and the cards it names are *)
(* in use, so that no purge takes them; what the panel read of one keeps its shape.      *)

\* What belongs to a contact keeps its card from being purged.
InUse(k) == IsRow(cards[k]) /\ cards[k].busy

\* Two contacts of one card link different persons, and one of them at most is the primary one.
Suit(r, s) == r.owner = s.owner =>
    /\ r.linked = s.linked => r.linked = Nil
    /\ ~(r.active /\ r.primary /\ s.active /\ s.primary)
SuitAll(cs) ==
    /\ \A c \in Contacts : IsRow(cs[c]) => cs[c].linked # cs[c].owner
    /\ \A c, d \in Contacts : c # d /\ IsRow(cs[c]) /\ IsRow(cs[d]) => Suit(cs[c], cs[d])

DeskTyped == desk # Nil =>
    /\ desk.id \in Contacts /\ desk.row \in ContactRows
    /\ desk.op # "save" => contacts[desk.id] \in ContactRows
ContactsHold == \A c \in Contacts : IsContact(c) =>
    InUse(contacts[c].owner) /\ (contacts[c].linked # Nil => InUse(contacts[c].linked))
VerifiedIsDone == \A a \in Accounts : HasRow(a) => (accounts[a].verified => ~accounts[a].pending)

LEMMA SuitsAreFits ==
    ASSUME NEW cs, SuitAll(cs), NEW c \in Contacts, IsRow(cs[c])
    PROVE  ContactFits(cs, c)
  BY DEF SuitAll, Suit, ContactFits

(* A contact that fits among others that suit one another suits them all. *)
LEMMA OneMoreFits ==
    ASSUME NEW cs, NEW c \in Contacts, ContactFits(cs, c),
           \A d \in Contacts \ {c} : IsRow(cs[d]) => cs[d].linked # cs[d].owner,
           \A d, f \in Contacts \ {c} : d # f /\ IsRow(cs[d]) /\ IsRow(cs[f]) => Suit(cs[d], cs[f])
    PROVE  SuitAll(cs)
<1>1. ASSUME NEW d \in Contacts, d # c, IsRow(cs[d]) PROVE Suit(cs[c], cs[d]) /\ Suit(cs[d], cs[c])
  BY <1>1 DEF ContactFits, Suit
<1>. QED
  BY <1>1 DEF SuitAll, ContactFits

(* What is in use stays in use, unless its card is merged into another. *)
KeepsUse(k) == InUse(k) => InUse(k)'
Others == GRegistration \/ GVisits \/ GPanel \/ GSwitchCard \/ (ToggleBusiness /\ OfAccounts) \/ Permissions \/ OnlineBooking

LEMMA OneUse ==
    ASSUME CardsTyped, NEW q \in Cards, IsRow(cards[q]), NEW row \in CardRows, cards' = [cards EXCEPT ![q] = row],
           cards[q].busy => row.busy, NEW k \in Cards
    PROVE  KeepsUse(k)
  BY DEF CardsTyped, KeepsUse, InUse

LEMMA NewUse ==
    ASSUME CardsTyped, NEW q \in Cards, cards[q] = Nil, NEW row, cards' = [cards EXCEPT ![q] = row], NEW k \in Cards
    PROVE  KeepsUse(k)
  BY DEF CardsTyped, KeepsUse, InUse

LEMMA UseStays ==
    ASSUME Typed, CardsTyped, Archive, [Others]_gvars, NEW k \in Cards
    PROVE  KeepsUse(k)
<1>k. ASSUME NEW q \in Cards, IsRow(cards[q]) PROVE cards[q] \in CardRows
  BY <1>k DEF CardsTyped
<1>r. ASSUME NEW a \in Accounts, HasRow(a) PROVE accounts[a] \in AccountRows /\ accounts[a].card \in Cards
  BY <1>r DEF Typed, AccountsTyped, AccountRows
<1>q. UNCHANGED cards => KeepsUse(k)
  BY DEF KeepsUse, InUse
<1>p. ASSUME NEW a \in Accounts, Purgeable(a), InUse(k) PROVE accounts[a].card # k
  BY <1>p DEF Purgeable, HasUnsafeUsage, Card, InUse
<1>1. ASSUME Purge PROVE KeepsUse(k)
  <2>. SUFFICES ASSUME InUse(k) PROVE cards'[k] = cards[k]
    BY DEF KeepsUse, InUse
  <2>. QED
    BY <1>1, <1>p DEF Purge
<1>2. ASSUME Register PROVE KeepsUse(k)
  <2>. SUFFICES ASSUME InUse(k) PROVE cards'[k] = cards[k]
    BY DEF KeepsUse, InUse
  <2>. PICK e \in Emails, w \in People, q \in Cards, a \in Accounts : RegisterClientAccess(e, w, q, a)
    BY <1>2 DEF Register
  <2>1. cards[q] = Nil /\ \A h \in HoldersOf(e) : h \in Accounts /\ Purgeable(h)
    BY DEF RegisterClientAccess, HoldersOf
  <2>2. k # q /\ k \notin {accounts[h].card : h \in HoldersOf(e)}
    BY <1>p, <2>1 DEF InUse
  <2>. QED
    BY <2>2 DEF RegisterClientAccess
<1>3. ASSUME NEW b \in Browsers, NEW l \in inbox, Verify(b, l) PROVE KeepsUse(k)
  <2>1. l.account \in Accounts /\ l.email \in Emails /\ HasRow(l.account)
    BY <1>3 DEF Typed, LettersTyped, Letters, Verify, VerifiedClientFromToken, Verifiable
  <2>. DEFINE q == accounts[l.account].card
              row == [cards[q] EXCEPT !.active = TRUE, !.email = l.email]
  <2>2. q \in Cards /\ cards[q] \in CardRows
    BY <1>k, <1>r, <2>1 DEF Archive, Homes, Card
  <2>3. cards' = [cards EXCEPT ![q] = row]
    BY <1>3, <2>2 DEF Verify, VerifiedClientFromToken, CardsTyped
  <2>4. row \in CardRows /\ row.busy = cards[q].busy
    BY <2>1, <2>2 DEF CardRows
  <2>. QED
    BY <2>2, <2>3, <2>4, OneUse
<1>4. ASSUME NEW q \in Cards, UseCard(q) \/ \E b \in Browsers : LockedIdentity(page[b], q) /\ cards' = [cards EXCEPT ![q].busy = TRUE]
      PROVE  KeepsUse(k)
  <2>. DEFINE row == [cards[q] EXCEPT !.busy = TRUE]
  <2>1. cards[q] \in CardRows /\ cards' = [cards EXCEPT ![q] = row]
    BY <1>4, <1>k DEF UseCard, LockedIdentity, OpenCards
  <2>2. row \in CardRows /\ row.busy
    BY <2>1 DEF CardRows
  <2>. QED
    BY <2>1, <2>2, OneUse
<1>5. ASSUME NEW q \in Cards, NEW w \in People, NEW e \in Emails \cup {NoEmail}, CreateCard(q, w, e) PROVE KeepsUse(k)
  BY <1>5, NewUse DEF CreateCard
<1>6. ASSUME SaveCardToggle PROVE KeepsUse(k)
  <2>. DEFINE q == staff.id
              row == [cards[q] EXCEPT !.active = staff.to]
  <2>1. q \in Cards /\ cards[q] \in CardRows /\ staff.to \in BOOLEAN /\ cards' = [cards EXCEPT ![q] = row]
    BY <1>6, <1>k DEF SaveCardToggle, Savable, Typed, StaffTyped
  <2>2. row \in CardRows /\ row.busy = cards[q].busy
    BY <2>1 DEF CardRows
  <2>. QED
    BY <2>1, <2>2, OneUse
<1>7. ASSUME NEW p \in Cards, NEW o \in Cards, NEW a \in Accounts, Dismiss(p, o, a) PROVE KeepsUse(k)
  <2>. DEFINE row == [cards[o] EXCEPT !.dismissed = Fingerprint(p, a)]
  <2>1. cards[o] \in CardRows /\ cards[p] \in CardRows /\ HasRow(a) /\ cards' = [cards EXCEPT ![o] = row]
    BY <1>7, <1>k DEF Dismiss, MergeCandidate, OpenCards
  <2>2. Fingerprint(p, a) \in Fingerprints
    BY <1>r, <2>1 DEF Fingerprint, Fingerprints, CardRows, AccountRows
  <2>3. row \in CardRows /\ row.busy = cards[o].busy
    BY <2>1, <2>2 DEF CardRows
  <2>. QED
    BY <2>1, <2>3, OneUse
<1>8. ASSUME EditCard PROVE KeepsUse(k)
  <2>. PICK q \in OpenCards, w \in People, e \in Emails \cup {NoEmail} :
          \/ cards' = [cards EXCEPT ![q].who = w, ![q].email = e]
          \/ \E a \in Accounts : ChangeAddress(q, w, a, e)
    BY <1>8 DEF EditCard
  <2>0. cards' = [cards EXCEPT ![q].who = w, ![q].email = e]
    BY DEF ChangeAddress
  <2>. DEFINE row == [cards[q] EXCEPT !.who = w, !.email = e]
  <2>1. q \in Cards /\ cards[q] \in CardRows
    BY <1>k DEF OpenCards
  <2>2. cards' = [cards EXCEPT ![q] = row]
    BY <2>0, <2>1 DEF CardsTyped
  <2>3. row \in CardRows /\ row.busy = cards[q].busy
    BY <2>1 DEF CardRows
  <2>. QED
    BY <2>1, <2>2, <2>3, OneUse
<1>9. ASSUME SaveContact PROVE KeepsUse(k)
  <2>. SUFFICES ASSUME InUse(k) PROVE InUse(k)'
    BY DEF KeepsUse
  <2>1. cards[k] \in CardRows /\ cards'[k] \in {cards[k], [cards[k] EXCEPT !.busy = TRUE]}
    BY <1>9, <1>k DEF SaveContact, InUse
  <2>2. [cards[k] EXCEPT !.busy = TRUE] \in CardRows /\ [cards[k] EXCEPT !.busy = TRUE].busy
    BY <2>1 DEF CardRows
  <2>. QED
    BY <2>1, <2>2 DEF InUse
<1>10. ASSUME QuickCreate PROVE KeepsUse(k)
  <2>. SUFFICES ASSUME InUse(k) PROVE InUse(k)'
    BY DEF KeepsUse
  <2>. PICK q \in Cards, w \in People, c \in Contacts, l \in OpenCards, online \in BOOLEAN :
            SaveWithPerson(q, w, c, l, online)
    BY <1>10 DEF QuickCreate
  <2>1. cards[k] \in CardRows /\ l \in Cards /\ cards[l] \in CardRows /\ k # q /\ l # q
    BY <1>k DEF InUse, OpenCards, SaveWithPerson
  <2>2. cards'[k] \in {cards[k], [cards[k] EXCEPT !.busy = TRUE]}
    BY <2>1 DEF SaveWithPerson, CardsTyped
  <2>3. [cards[k] EXCEPT !.busy = TRUE] \in CardRows /\ [cards[k] EXCEPT !.busy = TRUE].busy
    BY <2>1 DEF CardRows
  <2>. QED
    BY <2>1, <2>2, <2>3 DEF InUse
<1>11. ASSUME \/ MailStep \/ ReadToggle \/ AbandonToggle \/ SaveAccountToggle \/ ToggleBusiness \/ Invite \/ EndInvite
              \/ \E a \in Accounts : ExpireRegistration(a) \/ Resend(a) \/ RequestReset(a)
              \/ \E b \in Browsers, l \in inbox : ResetPassword(b, l)
              \/ \E b \in Browsers : \/ Login(b) \/ Leave(b) \/ Claim(b) \/ Activate(b) \/ DropClaim(b)
                                     \/ \E a \in Accounts : Authenticate(b, a)
       PROVE  KeepsUse(k)
  BY <1>q, <1>11 DEF MailStep, ReadToggle, AbandonToggle, SaveAccountToggle, ToggleBusiness, Invite, EndInvite,
                     ExpireRegistration, Resend, RequestReset, ResetPassword, Login, Leave, Claim, Activate,
                     DropClaim, Authenticate, rows
<1>12. ASSUME \/ OpenContactForm \/ ReadContact \/ ToggleContact \/ ToggleOnline \/ AbandonDesk
              \/ \E b \in Browsers : OpenPage(b) \/ ClosePage(b)
              \/ UNCHANGED gvars
       PROVE  KeepsUse(k)
  BY <1>q, <1>12 DEF OpenContactForm, ReadContact, ToggleContact, ToggleOnline, AbandonDesk, OpenPage, ClosePage,
                     gvars, vars, rows
<1>13. ASSUME NEW b \in Browsers, BookOnline(b) PROVE KeepsUse(k)
  BY <1>4, <1>13 DEF BookOnline
<1>. QED
  BY <1>1, <1>2, <1>3, <1>4, <1>5, <1>6, <1>7, <1>8, <1>9, <1>10, <1>11, <1>12, <1>13
     DEF Others, GRegistration, GVisits, GPanel, GSwitchCard, Registration, Visits, PanelRows, Permissions, OnlineBooking

(* A merge takes the use of a card along. *)
LEMMA MergeUse ==
    ASSUME Typed, CardsTyped, NEW p \in Cards, NEW o \in Cards, NEW a \in Accounts, Merge(p, o, a), NEW k \in Cards, InUse(k)
    PROVE  (IF k = o THEN InUse(p) ELSE InUse(k))'
<1>1. p # o /\ cards[p] \in CardRows /\ cards[o] \in CardRows /\ cards[k] \in CardRows
  BY DEF Merge, MergeCandidate, OpenCards, CardsTyped, InUse
<1>. DEFINE left == [cards[o] EXCEPT !.active = FALSE, !.merged = p, !.busy = FALSE, !.dismissed = Nil]
            kept == [cards[p] EXCEPT !.busy = cards[p].busy \/ cards[o].busy]
<1>2. kept \in CardRows /\ kept.busy = (cards[p].busy \/ cards[o].busy)
  BY <1>1 DEF CardRows
<1>3. cards'[p] = kept /\ \A q \in Cards \ {p, o} : cards'[q] = cards[q]
  BY <1>1 DEF Merge, CardsTyped
<1>. QED
  BY <1>1, <1>2, <1>3 DEF InUse
-----------------------------------------------------------------------------
(* A verified account is not pending, whoever saves it. *)
LEMMA OneDone ==
    ASSUME Typed, VerifiedIsDone, NEW a \in Accounts, NEW row \in AccountRows, row.verified => ~row.pending,
           accounts' = [accounts EXCEPT ![a] = row]
    PROVE  VerifiedIsDone'
  BY DEF VerifiedIsDone, Typed, AccountsTyped

LEMMA PendingStays ==
    ASSUME NEW row \in AccountRows, NEW changed \in AccountRows,
           \/ changed = [row EXCEPT !.expired = TRUE] \/ changed = [row EXCEPT !.used = TRUE]
           \/ \E on \in BOOLEAN : changed = [row EXCEPT !.active = on]
           \/ \E k \in Cards : changed = [row EXCEPT !.card = k]
           \/ \E n \in 0 .. MaxPassword : changed = [row EXCEPT !.password = n]
    PROVE  changed.pending = row.pending /\ changed.verified = row.verified
  BY DEF AccountRows

LEMMA DoneStep ==
    ASSUME Typed, VerifiedIsDone, [GNext]_gvars
    PROVE  VerifiedIsDone'
<1>r. ASSUME NEW a \in Accounts, HasRow(a)
      PROVE  accounts[a] \in AccountRows /\ (accounts[a].verified => ~accounts[a].pending)
  BY <1>r DEF Typed, AccountsTyped, VerifiedIsDone
<1>l. ASSUME NEW l \in inbox PROVE l.account \in Accounts
  BY DEF Typed, LettersTyped, Letters
<1>f. fresh \in 0 .. MaxPassword
  BY DEF Typed, AccountsTyped
<1>q. UNCHANGED accounts => VerifiedIsDone'
  BY DEF VerifiedIsDone
<1>1. ASSUME NEW a \in Accounts, ExpireRegistration(a) PROVE VerifiedIsDone'
  <2>. DEFINE row == [accounts[a] EXCEPT !.expired = TRUE]
  <2>1. HasRow(a) /\ accounts' = [accounts EXCEPT ![a] = row]
    BY <1>1 DEF ExpireRegistration
  <2>2. row \in AccountRows
    BY <1>r, <2>1, RowChanges
  <2>3. row.verified = accounts[a].verified /\ row.pending = accounts[a].pending
    BY <1>r, <2>1, <2>2, PendingStays
  <2>. QED
    BY <1>r, <2>1, <2>2, <2>3, OneDone
<1>2. ASSUME NEW b \in Browsers, NEW l \in inbox, Verify(b, l) PROVE VerifiedIsDone'
  <2>. DEFINE a == l.account
              row == [accounts[a] EXCEPT !.verified = TRUE, !.pending = FALSE, !.expired = FALSE, !.password = fresh]
  <2>1. a \in Accounts /\ HasRow(a) /\ accounts' = [accounts EXCEPT ![a] = row]
    BY <1>2, <1>l DEF Verify, VerifiedClientFromToken, Verifiable, Typed, AccountsTyped
  <2>2. row \in AccountRows
    BY <1>f, <1>r, <2>1, RowChanges
  <2>3. ~row.pending
    BY <1>r, <2>1 DEF AccountRows
  <2>. QED
    BY <2>1, <2>2, <2>3, OneDone
<1>3. ASSUME NEW b \in Browsers, NEW l \in inbox, ResetPassword(b, l) PROVE VerifiedIsDone'
  <2>. DEFINE a == l.account
              row == [accounts[a] EXCEPT !.password = fresh]
  <2>1. a \in Accounts /\ HasRow(a) /\ accounts' = [accounts EXCEPT ![a] = row]
    BY <1>3, <1>l DEF ResetPassword, ResetFromToken, MayEnter
  <2>2. row \in AccountRows
    BY <1>f, <1>r, <2>1, RowChanges
  <2>3. row.verified = accounts[a].verified /\ row.pending = accounts[a].pending
    BY <1>f, <1>r, <2>1, <2>2, PendingStays
  <2>. QED
    BY <1>r, <2>1, <2>2, <2>3, OneDone
<1>4. ASSUME NEW b \in Browsers, Login(b) PROVE VerifiedIsDone'
  <2>. DEFINE a == entering[b].account
              row == [accounts[a] EXCEPT !.used = TRUE]
  <2>1. a \in Accounts /\ HasRow(a) /\ accounts' = [accounts EXCEPT ![a] = row]
    BY <1>4 DEF Login, Typed, BrowsersTyped, Entries
  <2>2. row \in AccountRows
    BY <1>r, <2>1, RowChanges
  <2>3. row.verified = accounts[a].verified /\ row.pending = accounts[a].pending
    BY <1>r, <2>1, <2>2, PendingStays
  <2>. QED
    BY <1>r, <2>1, <2>2, <2>3, OneDone
<1>5. ASSUME SaveAccountToggle PROVE VerifiedIsDone'
  <2>. DEFINE a == staff.id
              row == [accounts[a] EXCEPT !.active = staff.to]
  <2>1. a \in Accounts /\ HasRow(a) /\ staff.to \in BOOLEAN /\ accounts' = [accounts EXCEPT ![a] = row]
    BY <1>5 DEF SaveAccountToggle, Typed, StaffTyped
  <2>2. row \in AccountRows
    BY <1>r, <2>1, RowChanges
  <2>3. row.verified = accounts[a].verified /\ row.pending = accounts[a].pending
    BY <1>r, <2>1, <2>2, PendingStays
  <2>. QED
    BY <1>r, <2>1, <2>2, <2>3, OneDone
<1>6. ASSUME NEW p \in Cards, NEW o \in Cards, NEW a \in Accounts, Merge(p, o, a) PROVE VerifiedIsDone'
  <2>. DEFINE row == [accounts[a] EXCEPT !.card = p]
  <2>1. HasRow(a) /\ accounts' = [accounts EXCEPT ![a] = row]
    BY <1>6 DEF Merge, MergeCandidate
  <2>2. row \in AccountRows
    BY <1>r, <2>1, RowChanges
  <2>3. row.verified = accounts[a].verified /\ row.pending = accounts[a].pending
    BY <1>r, <2>1, <2>2, PendingStays
  <2>. QED
    BY <1>r, <2>1, <2>2, <2>3, OneDone
<1>7. ASSUME EditCard PROVE VerifiedIsDone'
  <2>1. CASE UNCHANGED accounts
    BY <1>q, <2>1
  <2>2. CASE ~UNCHANGED accounts
    <3>. PICK k \in OpenCards, w \in People, e \in Emails, a \in Accounts : HasRow(a) /\ ChangeAddress(k, w, a, e)
      BY <1>7, <2>2 DEF EditCard
    <3>. DEFINE row == [accounts[a] EXCEPT !.email = e, !.verified = FALSE, !.password = fresh]
    <3>1. accounts' = [accounts EXCEPT ![a] = row]
      BY DEF ChangeAddress, Typed, AccountsTyped
    <3>2. row \in AccountRows /\ ~row.verified
      BY <1>f, <1>r DEF AccountRows
    <3>. QED
      BY <3>1, <3>2, OneDone
  <2>. QED
    BY <2>1, <2>2
<1>8. ASSUME Register \/ Purge PROVE VerifiedIsDone'
  <2>1. ASSUME NEW e \in Emails, NEW w \in People, NEW k \in Cards, NEW a \in Accounts, RegisterClientAccess(e, w, k, a)
        PROVE  VerifiedIsDone'
    BY <2>1 DEF RegisterClientAccess, NewAccount, VerifiedIsDone
  <2>2. Purge => VerifiedIsDone'
    BY DEF Purge, VerifiedIsDone
  <2>. QED
    BY <1>8, <2>1, <2>2 DEF Register
<1>9. ASSUME NEW b \in Browsers, Activate(b) PROVE VerifiedIsDone'
  <2>. PICK e \in Emails, a \in Accounts : ActivateClaimed(claim[b], e, a)
    BY <1>9 DEF Activate
  <2>. QED
    BY DEF ActivateClaimed, NewAccount, VerifiedIsDone, Typed, AccountsTyped
<1>10. ASSUME \/ MailStep \/ ReadToggle \/ AbandonToggle \/ ToggleBusiness \/ Invite \/ EndInvite \/ SaveCardToggle
              \/ \E a \in Accounts : Resend(a) \/ RequestReset(a)
              \/ \E k \in Cards : UseCard(k) \/ \E w \in People, e \in Emails \cup {NoEmail} : CreateCard(k, w, e)
              \/ \E p, o \in Cards, a \in Accounts : Dismiss(p, o, a)
              \/ \E b \in Browsers : Leave(b) \/ Claim(b) \/ DropClaim(b) \/ \E a \in Accounts : Authenticate(b, a)
       PROVE  VerifiedIsDone'
  BY <1>q, <1>10 DEF MailStep, ReadToggle, AbandonToggle, ToggleBusiness, Invite, EndInvite, SaveCardToggle, Resend,
                     RequestReset, UseCard, CreateCard, Dismiss, Leave, Claim, DropClaim, Authenticate, rows
<1>11. Permissions \/ OnlineBooking \/ UNCHANGED gvars => UNCHANGED accounts
  BY DEF Permissions, OnlineBooking, OpenContactForm, SaveContact, QuickCreate, ReadContact, ToggleContact,
         ToggleOnline, AbandonDesk, OpenPage, BookOnline, ClosePage, gvars, vars, rows
<1>. QED
  BY <1>q, <1>1, <1>2, <1>3, <1>4, <1>5, <1>6, <1>7, <1>8, <1>9, <1>10, <1>11
     DEF GNext, GRegistration, GVisits, GPanel, GSwitchCard, GMerge, Registration, Visits, PanelRows
-----------------------------------------------------------------------------
(* Grants keep their shape. *)
LEMMA GrantRow ==
    ASSUME NEW row \in GrantRows
    PROVE  /\ row.contact \in Contacts \cup {Nil} /\ row.active \in BOOLEAN
           /\ \A on \in BOOLEAN : [row EXCEPT !.active = on] \in GrantRows
  BY DEF GrantRows

LEMMA NewGrant ==
    ASSUME NEW c \in Contacts \cup {Nil}, NEW on \in BOOLEAN
    PROVE  [contact |-> c, active |-> on] \in GrantRows
  BY DEF GrantRows

GrantsTyped == grants \in [Accounts \X Cards -> GrantRows \cup {Nil}]

LEMMA CutStaysTyped ==
    ASSUME GrantsTyped, NEW cut
    PROVE  CutGrants(grants, cut) \in [Accounts \X Cards -> GrantRows \cup {Nil}]
<1>1. \A q \in Accounts \X Cards : grants[q] # Nil => [grants[q] EXCEPT !.active = FALSE] \in GrantRows
  BY GrantRow DEF GrantsTyped
<1>. QED
  BY <1>1 DEF CutGrants, GrantsTyped

LEMMA GrantStep ==
    ASSUME GrantsTyped, DeskTyped, [GNext]_gvars
    PROVE  GrantsTyped'
<1>1. SelfGrants => GrantsTyped'
  <2>1. [contact |-> Nil, active |-> TRUE] \in GrantRows
    BY NewGrant
  <2>. QED
    BY <2>1 DEF SelfGrants, GrantsTyped
<1>2. ASSUME SaveContact PROVE GrantsTyped'
  <2>. DEFINE new == [contact |-> desk.id, active |-> TRUE]
  <2>1. new \in GrantRows
    BY <1>2, NewGrant DEF SaveContact, DeskTyped
  <2>2. \A q \in Accounts \X Cards : grants'[q] \in {new, CutGrants(grants, {desk.id})[q]}
    BY <1>2 DEF SaveContact, GrantsTyped
  <2>4. CutGrants(grants, {desk.id}) \in [Accounts \X Cards -> GrantRows \cup {Nil}]
    BY CutStaysTyped
  <2>3. \A q \in Accounts \X Cards : grants'[q] \in GrantRows \cup {Nil}
    BY <2>1, <2>2, <2>4
  <2>. QED
    BY <1>2, <2>3 DEF SaveContact, GrantsTyped
<1>3. ASSUME QuickCreate PROVE GrantsTyped'
  <2>1. \A c \in Contacts : [contact |-> c, active |-> TRUE] \in GrantRows
    BY NewGrant
  <2>. QED
    BY <1>3, <2>1 DEF QuickCreate, SaveWithPerson, GrantsTyped
<1>4. ASSUME ToggleOnline PROVE GrantsTyped'
  <2>. PICK a \in Accounts :
         grants' = [grants EXCEPT ![<<a, desk.row.owner>>] =
                      [contact |-> desk.id, active |-> IF grants[<<a, desk.row.owner>>] = Nil THEN TRUE
                                                       ELSE ~grants[<<a, desk.row.owner>>].active]]
    BY <1>4 DEF ToggleOnline
  <2>. DEFINE q == <<a, desk.row.owner>>
              on == IF grants[q] = Nil THEN TRUE ELSE ~grants[q].active
  <2>1. q \in Accounts \X Cards /\ desk.id \in Contacts
    BY <1>4 DEF ToggleOnline, DeskTyped, ContactRows
  <2>2. on \in BOOLEAN
    BY <2>1, GrantRow DEF GrantsTyped
  <2>3. [contact |-> desk.id, active |-> on] \in GrantRows
    BY <2>1, <2>2, NewGrant
  <2>. QED
    BY <2>1, <2>3 DEF GrantsTyped
<1>5. ASSUME PauseCuts PROVE GrantsTyped'
  BY <1>5, CutStaysTyped DEF PauseCuts, GrantsTyped, links
<1>6. ASSUME NEW p \in Cards, NEW o \in Cards, NEW a \in Accounts, MergeMoves(p, o, a) PROVE GrantsTyped'
  <2>. DEFINE From(q) == grants[<<q[1], o>>]
              Kept(q) == IF grants[q] # Nil THEN grants[q] ELSE From(q)
              Both(q) == IF Kept(q) = Nil THEN Nil
                         ELSE [Kept(q) EXCEPT !.active = Kept(q).active \/ (From(q) # Nil /\ From(q).active)]
              To(q) == [contact |-> IF Kept(q) = Nil THEN Nil ELSE Kept(q).contact, active |-> TRUE]
  <2>1. grants' = [q \in Accounts \X Cards |-> IF q[2] = o THEN Nil ELSE IF q[2] # p THEN grants[q]
                                               ELSE IF q[1] # a THEN Both(q) ELSE To(q)]
    BY <1>6 DEF MergeMoves, GrantsTyped
  <2>2. ASSUME NEW q \in Accounts \X Cards PROVE Both(q) \in GrantRows \cup {Nil} /\ To(q) \in GrantRows
    <3>1. From(q) \in GrantRows \cup {Nil} /\ Kept(q) \in GrantRows \cup {Nil}
      BY DEF GrantsTyped
    <3>2. Kept(q) # Nil => Kept(q).active \in BOOLEAN /\ Kept(q).contact \in Contacts \cup {Nil}
      BY <3>1, GrantRow
    <3>3. From(q) # Nil => From(q).active \in BOOLEAN
      BY <3>1, GrantRow
    <3>4. Kept(q) # Nil => Both(q) \in GrantRows
      BY <3>1, <3>2, <3>3, GrantRow
    <3>5. To(q) \in GrantRows
      BY <3>2, NewGrant
    <3>. QED
      BY <3>4, <3>5
  <2>. QED
    BY <2>1, <2>2 DEF GrantsTyped
<1>7. UNCHANGED grants => GrantsTyped'
  BY DEF GrantsTyped
<1>8. \/ OpenContactForm \/ ReadContact \/ ToggleContact \/ AbandonDesk \/ OnlineBooking \/ UNCHANGED gvars
      => UNCHANGED grants
  BY DEF OpenContactForm, ReadContact, ToggleContact, AbandonDesk, OnlineBooking, OpenPage, BookOnline, ClosePage, gvars, links
<1>. QED
  BY <1>1, <1>2, <1>3, <1>4, <1>5, <1>6, <1>7, <1>8
     DEF GNext, GRegistration, GVisits, GPanel, GSwitchCard, GMerge, OfAccounts, Permissions
-----------------------------------------------------------------------------
(* Contacts go on suiting one another, and what they name stays in use. *)
ContactsTyped == contacts \in [Contacts -> ContactRows \cup {Nil}]
ContactsInv   == ContactsTyped /\ SuitAll(contacts) /\ ContactsHold

LEMMA ContactRow ==
    ASSUME NEW row \in ContactRows
    PROVE  row.owner \in Cards /\ row.linked \in Cards \cup {Nil} /\ row.active \in BOOLEAN /\ row.primary \in BOOLEAN
  BY DEF ContactRows

(* Switching a contact leaves the two cards it is about. *)
LEMMA Switched ==
    ASSUME NEW row \in ContactRows, NEW on \in BOOLEAN, NEW first \in BOOLEAN
    PROVE  LET new == [row EXCEPT !.active = on, !.primary = first] IN
           /\ new \in ContactRows /\ new.owner = row.owner /\ new.linked = row.linked
           /\ new.active = on /\ new.primary = first
  BY DEF ContactRows

LEMMA Demoted ==
    ASSUME NEW row \in ContactRows
    PROVE  LET new == [row EXCEPT !.primary = FALSE] IN
           new \in ContactRows /\ new.owner = row.owner /\ new.linked = row.linked /\ ~new.primary
  BY DEF ContactRows

LEMMA Moved ==
    ASSUME NEW row \in ContactRows, NEW k \in Cards
    PROVE  /\ LET new == [row EXCEPT !.owner = k] IN
              /\ new \in ContactRows /\ new.owner = k /\ new.linked = row.linked
              /\ new.active = row.active /\ new.primary = row.primary
           /\ LET new == [row EXCEPT !.linked = k] IN
              /\ new \in ContactRows /\ new.owner = row.owner /\ new.linked = k
              /\ new.active = row.active /\ new.primary = row.primary
  BY DEF ContactRows

(* A contact that only gives up being the active or the primary one suits those it suited. *)
Weaker(r, s) ==
    /\ r.owner = s.owner /\ r.linked = s.linked
    /\ r.active /\ r.primary => s.active /\ s.primary

LEMMA WeakerContacts ==
    ASSUME ContactsInv, ContactsTyped', \A k \in Cards : KeepsUse(k),
           \A c \in Contacts : IsContact(c)' => IsContact(c) /\ Weaker(contacts'[c], contacts[c])
    PROVE  ContactsInv'
<1>1. SuitAll(contacts')
  <2>. SUFFICES ASSUME NEW c \in Contacts, NEW d \in Contacts, c # d, IsRow(contacts'[c]), IsRow(contacts'[d])
                PROVE  Suit(contacts'[c], contacts'[d]) /\ contacts'[c].linked # contacts'[c].owner
    BY DEF SuitAll, ContactsInv, IsContact, Weaker
  <2>. QED
    BY DEF SuitAll, Suit, ContactsInv, IsContact, Weaker
<1>2. ContactsHold'
  <2>. SUFFICES ASSUME NEW c \in Contacts, IsContact(c)'
                PROVE  (InUse(contacts[c].owner) /\ (contacts[c].linked # Nil => InUse(contacts[c].linked)))'
    BY DEF ContactsHold
  <2>1. IsContact(c) /\ contacts'[c].owner = contacts[c].owner /\ contacts'[c].linked = contacts[c].linked
    BY DEF Weaker
  <2>2. contacts[c] \in ContactRows
    BY <2>1 DEF ContactsInv, ContactsTyped, IsContact
  <2>3. contacts[c].owner \in Cards /\ contacts[c].linked \in Cards \cup {Nil}
    BY <2>2, ContactRow
  <2>4. InUse(contacts[c].owner) /\ (contacts[c].linked # Nil => InUse(contacts[c].linked))
    BY <2>1 DEF ContactsInv, ContactsHold
  <2>. QED
    BY <2>1, <2>3, <2>4 DEF KeepsUse, InUse
<1>. QED
  BY <1>1, <1>2 DEF ContactsInv

LEMMA SavedContact ==
    ASSUME Typed, CardsTyped, Archive, ContactsInv, DeskTyped, SaveContact
    PROVE  ContactsInv'
<1>. DEFINE c == desk.id
            row == desk.row
<1>1. c \in Contacts /\ row \in ContactRows /\ IsRow(cards[row.owner]) /\ (row.linked # Nil => IsRow(cards[row.linked]))
  BY DEF SaveContact, DeskTyped
<1>2. row.owner \in Cards /\ row.linked \in Cards \cup {Nil}
  BY <1>1, ContactRow
<1>3. /\ contacts' \in [Contacts -> {row} \cup {contacts[d] : d \in Contacts} \cup {[contacts[d] EXCEPT !.primary = FALSE] : d \in Contacts}]
      /\ contacts'[c] = row /\ ContactFits(contacts', c)
      /\ \A d \in Contacts \ {c} : \/ contacts'[d] = contacts[d]
                                   \/ IsContact(d) /\ contacts'[d] = [contacts[d] EXCEPT !.primary = FALSE]
  BY <1>1 DEF SaveContact
<1>4. ASSUME NEW d \in Contacts \ {c}
      PROVE  \/ contacts'[d] = contacts[d]
             \/ /\ IsContact(d) /\ contacts[d] \in ContactRows /\ contacts'[d] \in ContactRows
                /\ Weaker(contacts'[d], contacts[d])
  <2>. SUFFICES ASSUME IsContact(d), contacts'[d] = [contacts[d] EXCEPT !.primary = FALSE]
                PROVE  contacts[d] \in ContactRows /\ contacts'[d] \in ContactRows /\ Weaker(contacts'[d], contacts[d])
    BY <1>3
  <2>1. contacts[d] \in ContactRows
    BY DEF ContactsInv, ContactsTyped, IsContact
  <2>2. /\ contacts'[d] \in ContactRows /\ contacts'[d].owner = contacts[d].owner
        /\ contacts'[d].linked = contacts[d].linked /\ ~contacts'[d].primary
    BY <2>1, Demoted
  <2>. QED
    BY <2>1, <2>2 DEF Weaker
<1>9. ASSUME NEW d \in Contacts \ {c}, IsRow(contacts'[d])
      PROVE  IsContact(d) /\ contacts[d] \in ContactRows /\ Weaker(contacts'[d], contacts[d])
  BY <1>4, <1>9 DEF Weaker, ContactsInv, ContactsTyped, IsContact
<1>5. ContactsTyped'
  <2>1. \A d \in Contacts : contacts'[d] \in ContactRows \cup {Nil}
    BY <1>1, <1>3, <1>4 DEF ContactsInv, ContactsTyped
  <2>. QED
    BY <1>3, <2>1 DEF ContactsTyped
<1>6. SuitAll(contacts')
  <2>1. \A d \in Contacts \ {c} : IsRow(contacts'[d]) => contacts'[d].linked # contacts'[d].owner
    BY <1>9 DEF ContactsInv, SuitAll, Weaker, IsContact
  <2>2. \A d, f \in Contacts \ {c} : d # f /\ IsRow(contacts'[d]) /\ IsRow(contacts'[f]) => Suit(contacts'[d], contacts'[f])
    BY <1>9 DEF ContactsInv, SuitAll, Suit, Weaker, IsContact
  <2>. QED
    BY <1>1, <1>3, <2>1, <2>2, OneMoreFits
<1>7. ASSUME NEW k \in Cards, k \in {row.owner, row.linked} PROVE InUse(k)'
  <2>1. cards[k] \in CardRows /\ cards'[k] = [cards[k] EXCEPT !.busy = TRUE]
    BY <1>1, <1>2, <1>7 DEF SaveContact, CardsTyped
  <2>2. [cards[k] EXCEPT !.busy = TRUE] \in CardRows /\ [cards[k] EXCEPT !.busy = TRUE].busy
    BY <2>1 DEF CardRows
  <2>. QED
    BY <2>1, <2>2 DEF InUse
<1>8. ContactsHold'
  <2>. SUFFICES ASSUME NEW d \in Contacts, IsContact(d)'
                PROVE  (InUse(contacts[d].owner) /\ (contacts[d].linked # Nil => InUse(contacts[d].linked)))'
    BY DEF ContactsHold
  <2>1. CASE d = c
    BY <1>2, <1>3, <1>7, <2>1 DEF InUse
  <2>2. CASE d # c
    <3>1. /\ contacts[d] \in ContactRows /\ IsContact(d)
          /\ contacts'[d].owner = contacts[d].owner /\ contacts'[d].linked = contacts[d].linked
      BY <1>9, <2>2 DEF Weaker, IsContact
    <3>2. contacts[d].owner \in Cards /\ contacts[d].linked \in Cards \cup {Nil}
      BY <3>1, ContactRow
    <3>3. InUse(contacts[d].owner) /\ (contacts[d].linked # Nil => InUse(contacts[d].linked))
      BY <3>1 DEF ContactsInv, ContactsHold
    <3>4. \A k \in Cards : KeepsUse(k)
      BY UseStays DEF Others, Permissions
    <3>. QED
      BY <3>1, <3>2, <3>3, <3>4 DEF KeepsUse, InUse
  <2>. QED
    BY <2>1, <2>2
<1>. QED
  BY <1>5, <1>6, <1>8 DEF ContactsInv

LEMMA CardWithPerson ==
    ASSUME Typed, CardsTyped, Archive, ContactsInv, QuickCreate
    PROVE  ContactsInv'
<1>. PICK k \in Cards, w \in People, c \in Contacts, l \in OpenCards, online \in BOOLEAN : SaveWithPerson(k, w, c, l, online)
  BY DEF QuickCreate
<1>. DEFINE row == [owner |-> k, linked |-> l, active |-> TRUE, primary |-> TRUE]
<1>1. l \in Cards /\ cards[l] \in CardRows /\ l # k /\ cards[k] = Nil
  BY DEF OpenCards, CardsTyped, SaveWithPerson
<1>2. row \in ContactRows
  BY <1>1 DEF ContactRows
<1>3. /\ contacts' \in [Contacts -> ContactRows \cup {Nil}] /\ contacts'[c] = row
      /\ \A d \in Contacts \ {c} : contacts'[d] = contacts[d]
  BY <1>2 DEF SaveWithPerson, ContactsInv, ContactsTyped
<1>4. ASSUME NEW d \in Contacts \ {c}, IsRow(contacts'[d])
      PROVE  /\ IsContact(d) /\ contacts[d].owner \in Cards /\ contacts[d].linked \in Cards \cup {Nil}
             /\ contacts[d].owner # k
             /\ InUse(contacts[d].owner) /\ (contacts[d].linked # Nil => InUse(contacts[d].linked))
  <2>1. IsContact(d) /\ contacts[d] \in ContactRows
    BY <1>3, <1>4 DEF ContactsInv, ContactsTyped, IsContact
  <2>2. InUse(contacts[d].owner) /\ (contacts[d].linked # Nil => InUse(contacts[d].linked))
    BY <2>1 DEF ContactsInv, ContactsHold
  <2>. QED
    BY <1>1, <2>1, <2>2, ContactRow DEF InUse
<1>5. SuitAll(contacts')
  <2>1. \A d \in Contacts \ {c} : IsRow(contacts'[d]) => contacts'[d].linked # contacts'[d].owner
    BY <1>3, <1>4 DEF ContactsInv, SuitAll, IsContact
  <2>2. \A d, f \in Contacts \ {c} : d # f /\ IsRow(contacts'[d]) /\ IsRow(contacts'[f]) => Suit(contacts'[d], contacts'[f])
    BY <1>3 DEF ContactsInv, SuitAll
  <2>3. ContactFits(contacts', c)
    BY <1>1, <1>3, <1>4 DEF ContactFits
  <2>. QED
    BY <2>1, <2>2, <2>3, OneMoreFits
<1>6. InUse(k)' /\ InUse(l)'
  <2>. DEFINE card == [source |-> "professional", active |-> TRUE, merged |-> Nil, who |-> w, email |-> NoEmail,
                       busy |-> TRUE, dismissed |-> Nil]
              used == [cards[l] EXCEPT !.busy = TRUE]
  <2>1. IsRow(card) /\ card.busy
    <3>1. card \in CardRows
      BY DEF CardRows
    <3>. QED
      BY <3>1
  <2>2. used \in CardRows /\ used.busy
    BY <1>1 DEF CardRows
  <2>3. cards'[k] = card /\ cards'[l] = used
    BY <1>1 DEF SaveWithPerson, CardsTyped
  <2>. QED
    BY <2>1, <2>2, <2>3 DEF InUse
<1>7. \A q \in Cards : KeepsUse(q)
  BY UseStays DEF Others, Permissions
<1>8. ContactsHold'
  <2>. SUFFICES ASSUME NEW d \in Contacts, IsContact(d)'
                PROVE  (InUse(contacts[d].owner) /\ (contacts[d].linked # Nil => InUse(contacts[d].linked)))'
    BY DEF ContactsHold
  <2>1. CASE d = c
    BY <1>3, <1>6, <2>1 DEF InUse
  <2>2. CASE d # c
    BY <1>3, <1>4, <1>7, <2>2 DEF KeepsUse, InUse, IsContact
  <2>. QED
    BY <2>1, <2>2
<1>. QED
  BY <1>3, <1>5, <1>8 DEF ContactsInv, ContactsTyped

LEMMA ToggledContact ==
    ASSUME Typed, CardsTyped, Archive, ContactsInv, DeskTyped, ToggleContact
    PROVE  ContactsInv'
<1>. DEFINE c == desk.id
            taken == \E d \in Contacts \ {c} : /\ IsContact(d) /\ contacts[d].owner = desk.row.owner
                                               /\ contacts[d].active /\ contacts[d].primary
            first == desk.row.primary /\ (desk.row.active \/ ~taken)
            on == ~desk.row.active
            row == [contacts[c] EXCEPT !.active = on, !.primary = first]
<1>1. c \in Contacts /\ desk.row \in ContactRows /\ contacts[c] \in ContactRows
  BY DEF ToggleContact, DeskTyped
<1>2. first \in BOOLEAN
  <2>1. desk.row.primary \in BOOLEAN
    BY <1>1, ContactRow
  <2>. QED
    BY <2>1
<1>9. on \in BOOLEAN
  OBVIOUS
<1>3. row \in ContactRows /\ row.owner = contacts[c].owner /\ row.linked = contacts[c].linked
  <2>1. contacts[c] \in ContactRows
    BY <1>1
  <2>. HIDE DEF on, first, c
  <2>. QED
    BY <1>2, <1>9, <2>1 DEF ContactRows
<1>4. contacts' = [contacts EXCEPT ![c] = row] /\ ContactFits(contacts', c)
  BY <1>1 DEF ToggleContact, ContactsInv, ContactsTyped
<1>5. /\ contacts' \in [Contacts -> ContactRows \cup {Nil}] /\ contacts'[c] = row
      /\ \A d \in Contacts \ {c} : contacts'[d] = contacts[d]
  BY <1>1, <1>3, <1>4 DEF ContactsInv, ContactsTyped
<1>6. SuitAll(contacts')
  <2>1. \A d \in Contacts \ {c} : IsRow(contacts'[d]) => contacts'[d].linked # contacts'[d].owner
    BY <1>5 DEF ContactsInv, SuitAll
  <2>2. \A d, f \in Contacts \ {c} : d # f /\ IsRow(contacts'[d]) /\ IsRow(contacts'[f]) => Suit(contacts'[d], contacts'[f])
    BY <1>5 DEF ContactsInv, SuitAll
  <2>3. ContactFits(contacts', c)
    BY <1>4
  <2>. QED
    BY <1>1, <2>1, <2>2, <2>3, OneMoreFits
<1>7. UNCHANGED cards
  BY DEF ToggleContact, vars, rows
<1>8. ContactsHold'
  <2>. SUFFICES ASSUME NEW d \in Contacts, IsContact(d)'
                PROVE  (InUse(contacts[d].owner) /\ (contacts[d].linked # Nil => InUse(contacts[d].linked)))'
    BY DEF ContactsHold
  <2>1. contacts'[d].owner = contacts[d].owner /\ contacts'[d].linked = contacts[d].linked
    BY <1>3, <1>5
  <2>2. CASE d # c
    BY <1>5, <1>7, <2>1, <2>2 DEF InUse, IsContact, ContactsInv, ContactsHold
  <2>3. CASE d = c
    <3>1. InUse(contacts[c].owner) /\ (contacts[c].linked # Nil => InUse(contacts[c].linked))
      BY <1>1, ContactAssumption DEF ContactsInv, ContactsHold, IsContact
    <3>. QED
      BY <1>7, <2>1, <2>3, <3>1 DEF InUse
  <2>. QED
    BY <2>2, <2>3
<1>. QED
  BY <1>5, <1>6, <1>8 DEF ContactsInv, ContactsTyped

LEMMA PausedContacts ==
    ASSUME Typed, CardsTyped, Archive, ContactsInv, GSwitchCard
    PROVE  ContactsInv'
<1>. DEFINE cut == {c \in Contacts : IsContact(c) /\ contacts[c].linked = staff.id /\ contacts[c].active}
<1>1. \A k \in Cards : KeepsUse(k)
  BY UseStays DEF Others
<1>2. CASE UNCHANGED contacts
  BY <1>1, <1>2, WeakerContacts DEF Weaker, ContactsInv, ContactsTyped, IsContact
<1>3. CASE ~UNCHANGED contacts
  <2>1. contacts' = [c \in Contacts |-> IF c \in cut THEN [contacts[c] EXCEPT !.active = FALSE, !.primary = FALSE]
                                        ELSE contacts[c]]
    BY <1>3 DEF GSwitchCard, PauseCuts, links
  <2>2. ASSUME NEW c \in Contacts
        PROVE  /\ contacts'[c] \in ContactRows \cup {Nil}
               /\ IsContact(c)' => IsContact(c) /\ Weaker(contacts'[c], contacts[c])
    <3>1. CASE c \in cut
      <4>1. contacts[c] \in ContactRows /\ IsContact(c)
        BY <3>1 DEF ContactsInv, ContactsTyped, IsContact
      <4>2. contacts'[c] = [contacts[c] EXCEPT !.active = FALSE, !.primary = FALSE]
        BY <2>1, <3>1
      <4>3. FALSE \in BOOLEAN
        OBVIOUS
      <4>4. /\ contacts'[c] \in ContactRows /\ contacts'[c].owner = contacts[c].owner
            /\ contacts'[c].linked = contacts[c].linked /\ ~contacts'[c].active
        BY <4>1, <4>2, <4>3, Switched
      <4>. QED
        BY <4>1, <4>4 DEF Weaker
    <3>2. CASE c \notin cut
      BY <2>1, <3>2 DEF Weaker, ContactsInv, ContactsTyped, IsContact
    <3>. QED
      BY <3>1, <3>2
  <2>3. ContactsTyped'
    BY <2>1, <2>2 DEF ContactsTyped
  <2>. QED
    BY <1>1, <2>2, <2>3, WeakerContacts
<1>. QED
  BY <1>2, <1>3

(* A merge refuses what would make two contacts of the kept card clash. *)
LEMMA MergedContacts ==
    ASSUME Typed, CardsTyped, ContactsInv, NEW p \in Cards, NEW o \in Cards, NEW a \in Accounts,
           Merge(p, o, a), MergeMoves(p, o, a)
    PROVE  ContactsInv'
<1>p. p # o /\ InUse(o) => InUse(p)'
  BY MergeUse
<1>k. ASSUME NEW k \in Cards, k # o, InUse(k) PROVE InUse(k)'
  BY <1>k, MergeUse
<1>1. p # o
  BY DEF Merge, MergeCandidate
<1>2. contacts' = [c \in Contacts |-> IF c \in Owned(o) THEN [contacts[c] EXCEPT !.owner = p]
                                      ELSE IF c \in Linking(o) THEN [contacts[c] EXCEPT !.linked = p]
                                      ELSE contacts[c]]
  BY DEF MergeMoves
<1>3. ASSUME NEW c \in Contacts
      PROVE  contacts'[c] \in ContactRows \cup {Nil}
  <2>1. contacts[c] \in ContactRows \cup {Nil} /\ (c \in Owned(o) \cup Linking(o) => contacts[c] \in ContactRows)
    BY DEF ContactsInv, ContactsTyped, Owned, Linking, IsContact
  <2>. QED
    BY <1>2, <2>1, Moved
(* What the merge made of a contact *)
<1>4. ASSUME NEW c \in Contacts, IsContact(c)'
      PROVE  /\ IsContact(c) /\ contacts[c] \in ContactRows
             /\ contacts[c].owner # contacts[c].linked
             /\ contacts'[c].owner = (IF contacts[c].owner = o THEN p ELSE contacts[c].owner)
             /\ contacts'[c].linked = (IF contacts[c].linked = o THEN p ELSE contacts[c].linked)
             /\ contacts'[c].active = contacts[c].active /\ contacts'[c].primary = contacts[c].primary
  <2>1. IsContact(c) /\ contacts[c] \in ContactRows
    BY <1>2, <1>4 DEF ContactsInv, ContactsTyped, Owned, Linking, IsContact
  <2>2. contacts[c].owner # contacts[c].linked
    BY <2>1 DEF ContactsInv, SuitAll, IsContact
  <2>3. CASE c \in Owned(o)
    BY <1>2, <2>1, <2>2, <2>3, Moved DEF Owned
  <2>4. CASE c \notin Owned(o) /\ c \in Linking(o)
    BY <1>2, <2>1, <2>2, <2>4, Moved DEF Owned, Linking
  <2>5. CASE c \notin Owned(o) /\ c \notin Linking(o)
    BY <1>2, <2>1, <2>2, <2>5 DEF Owned, Linking
  <2>. QED
    BY <2>1, <2>2, <2>3, <2>4, <2>5
<1>5. ASSUME NEW c \in Contacts, IsContact(c)' PROVE contacts'[c].linked # contacts'[c].owner
  <2>1. contacts[c].owner = o => contacts[c].linked # p
    BY <1>4, <1>5 DEF MergeMoves, Mergeable, Owned
  <2>2. contacts[c].linked = o => contacts[c].owner # p
    BY <1>4, <1>5 DEF MergeMoves, Mergeable, Linking
  <2>. QED
    BY <1>1, <1>4, <1>5, <2>1, <2>2
<1>6. ASSUME NEW c \in Contacts, NEW d \in Contacts, c # d, IsContact(c)', IsContact(d)',
             contacts'[c].owner = contacts'[d].owner
      PROVE  /\ contacts'[c].linked = contacts'[d].linked => contacts'[c].linked = Nil
             /\ ~(contacts'[c].active /\ contacts'[c].primary /\ contacts'[d].active /\ contacts'[d].primary)
  <2>0. /\ IsContact(c) /\ IsContact(d) /\ Suit(contacts[c], contacts[d]) /\ Suit(contacts[d], contacts[c])
        /\ contacts[c].owner \in Cards /\ contacts[d].owner \in Cards
    BY <1>4, <1>6, ContactRow DEF ContactsInv, SuitAll, IsContact
  <2>1. CASE contacts[c].owner = contacts[d].owner
    <3>1. ~(contacts[c].active /\ contacts[c].primary /\ contacts[d].active /\ contacts[d].primary)
      BY <2>0, <2>1 DEF Suit
    <3>2. contacts[c].linked = contacts[d].linked => contacts[c].linked = Nil
      BY <2>0, <2>1 DEF Suit
    <3>3. /\ ~(contacts[c].linked = o /\ contacts[d].linked = p)
          /\ ~(contacts[d].linked = o /\ contacts[c].linked = p)
      BY <2>0, <2>1 DEF MergeMoves, Mergeable, Linking
    <3>4. o # Nil /\ p # Nil
      OBVIOUS
    <3>. QED
      BY <1>4, <1>6, <3>1, <3>2, <3>3, <3>4
  <2>2. ASSUME NEW x \in Contacts, NEW y \in Contacts, IsContact(x), IsContact(y),
               contacts[x].owner = o, contacts[y].owner = p
        PROVE  /\ contacts[x].linked = contacts[y].linked => contacts[x].linked = Nil
               /\ ~(contacts[x].active /\ contacts[x].primary /\ contacts[y].active /\ contacts[y].primary)
               /\ contacts[x].linked # p /\ contacts[y].linked # o
    BY <2>2 DEF MergeMoves, Mergeable, Owned, Linking
  <2>3. CASE contacts[c].owner = o /\ contacts[d].owner = p
    BY <1>4, <1>6, <2>0, <2>2, <2>3
  <2>4. CASE contacts[c].owner = p /\ contacts[d].owner = o
    BY <1>4, <1>6, <2>0, <2>2, <2>4
  <2>. QED
    BY <1>4, <1>6, <2>1, <2>3, <2>4
<1>7. SuitAll(contacts')
  BY <1>5, <1>6 DEF SuitAll, Suit, IsContact
<1>8. ContactsHold'
  <2>. SUFFICES ASSUME NEW c \in Contacts, IsContact(c)'
                PROVE  (InUse(contacts[c].owner) /\ (contacts[c].linked # Nil => InUse(contacts[c].linked)))'
    BY DEF ContactsHold
  <2>1. /\ contacts[c].owner \in Cards /\ contacts[c].linked \in Cards \cup {Nil}
        /\ InUse(contacts[c].owner) /\ (contacts[c].linked # Nil => InUse(contacts[c].linked))
    BY <1>4, ContactRow DEF ContactsInv, ContactsHold
  <2>2. \A k \in Cards : InUse(k) => IF k = o THEN InUse(p)' ELSE InUse(k)'
    BY <1>1, <1>p, <1>k
  <2>3. o # Nil /\ p # Nil
    OBVIOUS
  <2>. QED
    BY <1>4, <2>1, <2>2, <2>3 DEF InUse
<1>. QED
  BY <1>2, <1>3, <1>7, <1>8 DEF ContactsInv, ContactsTyped

LEMMA ContactStep ==
    ASSUME Typed, CardsTyped, Archive, ContactsInv, DeskTyped, [GNext]_gvars
    PROVE  ContactsInv'
<1>q. ASSUME UNCHANGED contacts, [Others]_gvars PROVE ContactsInv'
  <2>1. \A k \in Cards : KeepsUse(k)
    BY <1>q, UseStays
  <2>. QED
    BY <1>q, <2>1, WeakerContacts DEF Weaker, ContactsInv, ContactsTyped, IsContact
<1>1. GRegistration \/ GVisits \/ GPanel \/ (ToggleBusiness /\ OfAccounts) => UNCHANGED contacts /\ Others
  BY DEF GRegistration, GVisits, GPanel, OfAccounts, Others
<1>2. OpenContactForm \/ ReadContact \/ ToggleOnline \/ AbandonDesk => UNCHANGED contacts /\ Others
  BY DEF OpenContactForm, ReadContact, ToggleOnline, AbandonDesk, Others, Permissions, links
<1>3. OnlineBooking => UNCHANGED contacts /\ Others
  BY DEF OnlineBooking, OpenPage, BookOnline, ClosePage, Others, links
<1>4. UNCHANGED gvars => UNCHANGED contacts
  BY DEF gvars, links
<1>. QED
  BY <1>q, <1>1, <1>2, <1>3, <1>4, SavedContact, CardWithPerson, ToggledContact, PausedContacts, MergedContacts
     DEF GNext, GMerge, Permissions

(* What a contact was when the panel read it keeps its shape, and the contact stays. *)
LEMMA DeskStep ==
    ASSUME Typed, CardsTyped, ContactsInv, ContactsInv', DeskTyped, [GNext]_gvars
    PROVE  DeskTyped'
<1>k. ASSUME UNCHANGED desk, \A c \in Contacts : contacts[c] \in ContactRows => contacts'[c] \in ContactRows
      PROVE  DeskTyped'
  BY <1>k DEF DeskTyped
<1>q. UNCHANGED <<desk, contacts>> => DeskTyped'
  BY DEF DeskTyped
<1>0. desk' = Nil => DeskTyped'
  BY DEF DeskTyped
<1>1. ASSUME OpenContactForm PROVE DeskTyped'
  <2>1. ASSUME NEW c \in Contacts, NEW k \in OpenCards, NEW l \in Cards \cup {Nil}, NEW primary \in BOOLEAN,
               NEW online \in BOOLEAN,
               ReadForm(c, k, l, primary, online)
        PROVE  DeskTyped'
    <3>. DEFINE on == IF IsContact(c) THEN contacts[c].active ELSE TRUE
    <3>1. k \in Cards /\ on \in BOOLEAN
      BY ContactRow DEF OpenCards, IsContact, ContactsInv, ContactsTyped
    <3>2. [owner |-> k, linked |-> l, primary |-> primary, active |-> on] \in ContactRows
      BY <3>1 DEF ContactRows
    <3>. QED
      BY <2>1, <3>2 DEF DeskTyped, ReadForm
  <2>. QED
    BY <1>1, <2>1 DEF OpenContactForm
<1>2. ASSUME ReadContact PROVE DeskTyped'
  <2>. PICK c \in Contacts, op \in {"active", "online"} :
         IsContact(c) /\ desk' = [op |-> op, id |-> c, online |-> FALSE, row |-> contacts[c]]
    BY <1>2 DEF ReadContact
  <2>1. contacts[c] \in ContactRows /\ UNCHANGED contacts
    BY <1>2 DEF IsContact, ContactsInv, ContactsTyped, ReadContact, links
  <2>. QED
    BY <2>1 DEF DeskTyped
<1>3. SaveContact \/ ToggleContact \/ ToggleOnline \/ AbandonDesk => desk' = Nil
  BY DEF SaveContact, ToggleContact, ToggleOnline, AbandonDesk
<1>4. ASSUME QuickCreate PROVE DeskTyped'
  <2>1. \A c \in Contacts : contacts[c] \in ContactRows => contacts'[c] = contacts[c]
    BY <1>4, ContactAssumption DEF QuickCreate, SaveWithPerson, ContactsInv, ContactsTyped
  <2>2. UNCHANGED desk
    BY <1>4 DEF QuickCreate
  <2>. QED
    BY <1>k, <2>1, <2>2
<1>5. ASSUME GSwitchCard PROVE DeskTyped'
  <2>1. ASSUME NEW c \in Contacts, contacts[c] \in ContactRows PROVE contacts'[c] \in ContactRows
    <3>1. contacts'[c] \in {contacts[c], [contacts[c] EXCEPT !.active = FALSE, !.primary = FALSE]}
      BY <1>5 DEF GSwitchCard, PauseCuts, links
    <3>2. FALSE \in BOOLEAN
      OBVIOUS
    <3>. QED
      BY <2>1, <3>1, <3>2, Switched
  <2>2. UNCHANGED desk
    BY <1>5 DEF GSwitchCard
  <2>. QED
    BY <1>k, <2>1, <2>2
<1>6. ASSUME NEW p \in Cards, NEW o \in Cards, NEW a \in Accounts, MergeMoves(p, o, a), UNCHANGED desk PROVE DeskTyped'
  <2>1. ASSUME NEW c \in Contacts, contacts[c] \in ContactRows PROVE contacts'[c] \in ContactRows
    <3>1. contacts'[c] \in {contacts[c], [contacts[c] EXCEPT !.owner = p], [contacts[c] EXCEPT !.linked = p]}
      BY <1>6 DEF MergeMoves
    <3>2. [contacts[c] EXCEPT !.owner = p] \in ContactRows /\ [contacts[c] EXCEPT !.linked = p] \in ContactRows
      BY <2>1, Moved
    <3>. QED
      BY <2>1, <3>1, <3>2
  <2>. QED
    BY <1>k, <1>6, <2>1
<1>7. GRegistration \/ GVisits \/ GPanel \/ (ToggleBusiness /\ OfAccounts) \/ OnlineBooking \/ UNCHANGED gvars
         => UNCHANGED <<desk, contacts>>
  BY DEF GRegistration, GVisits, GPanel, OfAccounts, OnlineBooking, OpenPage, BookOnline, ClosePage, gvars, links
<1>. QED
  BY <1>q, <1>0, <1>1, <1>2, <1>3, <1>4, <1>5, <1>6, <1>7 DEF GNext, GMerge, Permissions

LEMMA Opening ==
    ASSUME accepting \in BOOLEAN, [GNext]_gvars
    PROVE  accepting' \in BOOLEAN
<1>1. ToggleBusiness => accepting' \in BOOLEAN
  BY DEF ToggleBusiness
<1>2. Registration \/ Visits => UNCHANGED accepting
  BY DEF Registration, Register, Purge, MailStep, ExpireRegistration, Resend, RequestReset, Verify, ResetPassword,
         Visits, Login, Leave, Claim, Activate, DropClaim, Authenticate
<1>3. PanelRows \/ SaveCardToggle => UNCHANGED accepting
  BY DEF PanelRows, UseCard, CreateCard, Invite, EndInvite, EditCard, ReadToggle, SaveAccountToggle, AbandonToggle,
         Dismiss, SaveCardToggle
<1>4. (\E p, o \in Cards, a \in Accounts : Merge(p, o, a)) => UNCHANGED accepting
  BY DEF Merge
<1>5. Permissions \/ OnlineBooking \/ UNCHANGED gvars => UNCHANGED accepting
  BY DEF Permissions, OnlineBooking, OpenContactForm, SaveContact, QuickCreate, ReadContact, ToggleContact,
         ToggleOnline, AbandonDesk, OpenPage, BookOnline, ClosePage, gvars, vars
<1>. QED
  BY <1>1, <1>2, <1>3, <1>4, <1>5 DEF GNext, GRegistration, GVisits, GPanel, GSwitchCard, GMerge

LEMMA RowsHaveTheirShape ==
    ASSUME Typed, CardsTyped, Archive, VerifiedIsDone, accepting \in BOOLEAN
    PROVE  TypeOK
<1>1. \A k \in Cards : IsRow(cards[k]) => cards[k] \in CardRows
  BY DEF CardsTyped
<1>2. \A a \in Accounts :
         HasRow(a) => /\ accounts[a] \in AccountRows
                      /\ IsRow(Card(a))
                      /\ accounts[a].verified => ~accounts[a].pending
  BY DEF Typed, AccountsTyped, Archive, Homes, VerifiedIsDone
<1>3. \A i \in Invites : IsRow(invitations[i]) => invitations[i] \in InviteRows
  BY DEF Typed, AccountsTyped
<1>4. inbox \subseteq Letters
  BY DEF Typed, LettersTyped
<1>5. \A m \in mails : m.letter \in Letters /\ m.status \in MailStatus
  BY DEF Typed, LettersTyped
<1>6. \A b \in Browsers : claim[b] \in Invites \cup {Nil}
  BY DEF Typed, BrowsersTyped
<1>. QED
  BY <1>1, <1>2, <1>3, <1>4, <1>5, <1>6 DEF TypeOK

(* No step of the panel, of a merge or of a stale request breaks the constraints on      *)
(* contacts: a person is linked to a card once, the card's own person never, and one     *)
(* active contact at most is the primary one (save_authorized_contact,                   *)
(* set_authorized_contact_active, merge_client_records).                                 *)
THEOREM ContactsFitTogether == GSpec => []GTypeOK
<1>. DEFINE Rest == accepting \in BOOLEAN /\ VerifiedIsDone /\ GrantsTyped /\ DeskTyped /\ ContactsInv
            All == Typed /\ CardsTyped /\ Archive
<1>1. GInit => Rest
  BY DEF GInit, Init, VerifiedIsDone, GrantsTyped, DeskTyped, ContactsInv, ContactsTyped, ContactsHold, IsContact, SuitAll
<1>2. All /\ Rest /\ [GNext]_gvars => Rest'
  <2>. SUFFICES ASSUME All, Rest, [GNext]_gvars PROVE Rest'
    OBVIOUS
  <2>1. ContactsInv'
    BY ContactStep
  <2>. QED
    BY <2>1, Opening, DoneStep, GrantStep, DeskStep
<1>3. All /\ Rest => GTypeOK
  <2>. SUFFICES ASSUME All, Rest PROVE GTypeOK
    OBVIOUS
  <2>1. ASSUME NEW c \in Contacts, IsContact(c) PROVE contacts[c] \in ContactRows /\ ContactFits(contacts, c)
    BY <2>1, SuitsAreFits DEF ContactsInv, ContactsTyped, IsContact
  <2>2. \A q \in Accounts \X Cards : grants[q] # Nil => grants[q] \in GrantRows
    BY DEF GrantsTyped
  <2>4. TypeOK
    BY RowsHaveTheirShape
  <2>. QED
    BY <2>1, <2>2, <2>4 DEF GTypeOK
<1>4. GSpec => []All
  BY AlwaysTyped, AlwaysArchived, PTL
<1>. QED
  BY <1>1, <1>2, <1>3, <1>4, PTL DEF GSpec

=============================================================================
