----------------------------- MODULE ClientAccounts -----------------------------
(***************************************************************************)
(* The online accounts of one business's clients: client cards, public     *)
(* registrations, invitations, the mails that carry links, password        *)
(* resets, browser sessions, and the merge of two cards of one person.     *)
(*                                                                         *)
(* Concurrency.  Registration, purge, resend, verification, reset, edition *)
(* and merge lock the business row first, the activation of an invitation  *)
(* locks it through its join: each is ONE action.  The panel's switches    *)
(* read the row in one statement and save it in another, without a lock:   *)
(* what they read waits in `staff'.  A login reads the account before the  *)
(* browser session exists: it waits in `entering'.                         *)
(*                                                                         *)
(* A password is the fingerprint of its hash: every set_password, of None  *)
(* too, salts a new one.  Primary keys are not reused: a purged row is     *)
(* Gone.  Cards without a phone, which cannot have an account, are left    *)
(* out; `who' is the normalised name and phone.                            *)
(***************************************************************************)
EXTENDS Naturals, FiniteSets

CONSTANTS
    Cards, Accounts, Invites,
    Browsers,
    Emails, NoEmail,
    People,          \* what `who' may be
    MaxPassword,     \* bound on the passwords ever set
    Nil, Gone

VARIABLES
    accepting,       \* the business is active with public booking on
    cards, accounts, invitations,
    mails,           \* outbox rows with a link
    inbox,           \* letters that reached a mailbox; they stay there
    claim,           \* browser: the invitation it claimed
    entering,        \* browser: an account authenticated, not logged in yet
    session,         \* browser: the logged-in account and its fingerprint
    staff,           \* a panel request between its read and its save
    fresh,           \* the next password
    proven           \* history: accounts verified at some time

rows     == <<cards, accounts, invitations>>
post     == <<mails, inbox>>
browsers == <<claim, entering, session>>
vars     == <<accepting, rows, post, browsers, staff, fresh, proven>>

IsRow(x) == x \notin {Nil, Gone}

\* What a dismissed merge remembers: the kept card, its identity and the address.
Fingerprints == [kept : Cards, who : People, email : Emails]

CardRows    == [source : {"professional", "other"}, active : BOOLEAN, merged : Cards \cup {Nil},
                who : People, email : Emails \cup {NoEmail}, busy : BOOLEAN,
                dismissed : Fingerprints \cup {Nil}]
AccountRows == [card : Cards, email : Emails, verified : BOOLEAN, active : BOOLEAN,
                pending : BOOLEAN, expired : BOOLEAN, password : 0 .. MaxPassword, used : BOOLEAN]
InviteRows  == [card : Cards, state : {"open", "used", "revoked"}, expired : BOOLEAN]
Letters     == [kind : {"verification", "reset"}, account : Accounts, email : Emails,
                password : 0 .. MaxPassword]
MailStatus  == {"pending", "processing", "sending", "stale", "closed"}
Live        == {"processing", "sending"}   \* under a lease that has not ended

ASSUME ClientAssumption ==
    /\ NoEmail \notin Emails
    /\ MaxPassword \in Nat
    /\ Nil # Gone
    /\ {Nil, Gone} \cap (Cards \cup Accounts \cup Invites) = {}
    /\ \A mark \in {Nil, Gone} : mark \notin CardRows /\ mark \notin AccountRows /\ mark \notin InviteRows

Card(a)     == cards[accounts[a].card]
HasRow(a)   == IsRow(accounts[a])
HasAccount(k)  == \E a \in Accounts : HasRow(a) /\ accounts[a].card = k
HoldersOf(e)   == {a \in Accounts : HasRow(a) /\ accounts[a].email = e}
OpenCards      == {k \in Cards : IsRow(cards[k]) /\ cards[k].merged = Nil}

\* unique_active_professional_client_identity
SameIdentity(cs, k, w) ==
    \E q \in Cards \ {k} : IsRow(cs[q]) /\ cs[q].active /\ cs[q].source = "professional" /\ cs[q].who = w

-----------------------------------------------------------------------------
Init ==
    /\ accepting = TRUE
    /\ cards = [k \in Cards |-> Nil]
    /\ accounts = [a \in Accounts |-> Nil]
    /\ invitations = [i \in Invites |-> Nil]
    /\ mails = {} /\ inbox = {}
    /\ claim = [b \in Browsers |-> Nil]
    /\ entering = [b \in Browsers |-> Nil]
    /\ session = [b \in Browsers |-> Nil]
    /\ staff = Nil
    /\ fresh = 0
    /\ proven = {}

ToggleBusiness ==
    /\ accepting' = ~accepting
    /\ UNCHANGED <<rows, post, browsers, staff, fresh, proven>>

-----------------------------------------------------------------------------
(* Mail: a row per (account, kind, password) *)

Letter(kind, a) ==
    [kind |-> kind, account |-> a, email |-> accounts[a].email, password |-> accounts[a].password]

SameKey(m, l) == m.letter.account = l.account /\ m.letter.kind = l.kind /\ m.letter.password = l.password

\* _upsert_email with allow_resend: a live lease is left alone.
Queued(ms, l) ==
    IF \E m \in ms : SameKey(m, l) /\ m.status \in Live
    THEN ms
    ELSE {m \in ms : ~SameKey(m, l)} \cup {[letter |-> l, status |-> "pending"]}

\* _is_still_valid for the two kinds with a link
IsStillValid(l) ==
    /\ HasRow(l.account)
    /\ LET a == accounts[l.account] IN
       /\ a.active /\ a.email = l.email /\ a.password = l.password
       /\ \/ /\ l.kind = "verification" /\ ~a.verified
             /\ cards[a.card].active \/ (a.pending /\ ~a.expired)
          \/ l.kind = "reset" /\ a.verified /\ cards[a.card].active

\* A worker leases a row, drops what is no longer valid, and only then talks to the server.
MailStep ==
    /\ \E m \in mails, to \in {"processing", "sending", "stale", "closed"} :
          /\ \/ m.status \in {"pending", "stale"} /\ to = "processing"
             \/ m.status = "processing" /\ to = IF IsStillValid(m.letter) THEN "sending" ELSE "closed"
             \/ m.status = "sending" /\ to = "closed"
             \/ m.status \in {"processing", "sending"} /\ to = "stale"
          /\ mails' = (mails \ {m}) \cup {[m EXCEPT !.status = to]}
          /\ inbox' = IF m.status = "sending" THEN inbox \cup {m.letter} ELSE inbox
    /\ UNCHANGED <<accepting, rows, browsers, staff, fresh, proven>>

-----------------------------------------------------------------------------
(* Public registration *)

\* What the purge looks for, and what keeps it away.
Candidate(a) ==
    /\ HasRow(a)
    /\ accounts[a].pending /\ ~accounts[a].verified /\ accounts[a].expired
    /\ Card(a).source = "other" /\ ~Card(a).active

HasUnsafeUsage(a) == accounts[a].used \/ Card(a).busy
Leased(a)         == \E m \in mails : m.letter.account = a /\ m.status \in Live \cup {"stale"}
Purgeable(a)      == Candidate(a) /\ ~HasUnsafeUsage(a) /\ ~Leased(a)

\* An expired lease is only cancelled: the row stays for this pass.
LosesLease(m) ==
    /\ m.status = "stale"
    /\ Candidate(m.letter.account) /\ ~HasUnsafeUsage(m.letter.account)

\* Variant: a protected registration uses up the batch, so the others never have their turn.
PurgeBehindTheProtected ==
    /\ \A a \in Accounts : Candidate(a) => Purgeable(a)
    /\ \E a \in Accounts : Purgeable(a)
    /\ accounts' = [a \in Accounts |-> IF Purgeable(a) THEN Gone ELSE accounts[a]]
    /\ cards' = [k \in Cards |-> IF \E a \in Accounts : Purgeable(a) /\ accounts[a].card = k
                                 THEN Gone ELSE cards[k]]
    /\ mails' = {m \in mails : ~Purgeable(m.letter.account)}
    /\ UNCHANGED <<accepting, invitations, inbox, browsers, staff, fresh, proven>>

\* _purge_expired_public_registrations_for_locked_business; a batch counts what it did only.
Purge ==
    LET purged == {a \in Accounts : Purgeable(a)}
        homes  == {accounts[a].card : a \in purged}
        kept   == {m \in mails : m.letter.account \notin purged}
    IN  /\ purged # {} \/ \E m \in mails : LosesLease(m)
        /\ accounts' = [a \in Accounts |-> IF a \in purged THEN Gone ELSE accounts[a]]
        /\ cards' = [k \in Cards |-> IF k \in homes THEN Gone ELSE cards[k]]
        /\ mails' = {IF LosesLease(m) THEN [m EXCEPT !.status = "closed"] ELSE m : m \in kept}
        /\ UNCHANGED <<accepting, invitations, inbox, browsers, staff, fresh, proven>>

NewAccount(k, e, w, public) ==
    [card |-> k, email |-> e, verified |-> FALSE, active |-> TRUE, pending |-> public,
     expired |-> FALSE, password |-> w, used |-> FALSE]

(***************************************************************************)
(* register_client_access: the holders of the address are purged in the    *)
(* same transaction, so it fails, and undoes that purge, when one stays.   *)
(***************************************************************************)
RegisterClientAccess(e, w, k, a) ==
    LET holders == HoldersOf(e)
        homes   == {accounts[h].card : h \in holders}
    IN  /\ cards[k] = Nil /\ accounts[a] = Nil /\ fresh < MaxPassword
        /\ \A h \in holders : Purgeable(h)
        /\ accounts' = [h \in Accounts |-> IF h = a THEN NewAccount(k, e, fresh, TRUE)
                                           ELSE IF h \in holders THEN Gone ELSE accounts[h]]
        /\ cards' = [q \in Cards |->
                       IF q = k THEN [source |-> "other", active |-> FALSE, merged |-> Nil,
                                      who |-> w, email |-> e, busy |-> FALSE, dismissed |-> Nil]
                       ELSE IF q \in homes THEN Gone ELSE cards[q]]
        /\ mails' = {m \in mails : m.letter.account \notin holders}
        /\ fresh' = fresh + 1

\* client_register: its mail is queued after the commit, as any later one (Resend).
Register ==
    /\ accepting
    /\ \E e \in Emails, w \in People, k \in Cards, a \in Accounts : RegisterClientAccess(e, w, k, a)
    /\ UNCHANGED <<accepting, invitations, inbox, browsers, staff, proven>>

\* 48 hours without a link followed.
ExpireRegistration(a) ==
    /\ HasRow(a) /\ accounts[a].pending /\ ~accounts[a].expired
    /\ accounts' = [accounts EXCEPT ![a].expired = TRUE]
    /\ UNCHANGED <<accepting, cards, invitations, post, browsers, staff, fresh, proven>>

\* lock_pending_public_registration_for_resend
Resendable(a) == ~accounts[a].expired /\ ~Card(a).active

(***************************************************************************)
(* _queue_client_verification_if_allowed: one that is over is not queued   *)
(* again.  A pending registration gets a new term unless its mail is being *)
(* sent; as it had not expired, `expired' does not show it.                *)
(***************************************************************************)
QueueVerification(a) ==
    /\ accounts[a].pending => Resendable(a)
    /\ mails' = Queued(mails, Letter("verification", a))

\* client_email_pending, and the end of registering and of activating an invitation
Resend(a) ==
    /\ HasRow(a) /\ accounts[a].active /\ ~accounts[a].verified
    /\ QueueVerification(a)
    /\ UNCHANGED <<accepting, rows, inbox, browsers, staff, fresh, proven>>

\* unverified_client_from_token
Verifiable(l) ==
    /\ l.kind = "verification" /\ HasRow(l.account)
    /\ LET a == accounts[l.account] IN
       /\ a.active /\ ~a.verified /\ a.email = l.email /\ a.password = l.password
       /\ IF a.pending THEN ~a.expired ELSE cards[a.card].active

\* Variant: the registration stays pending once verified.
VerifyStillPending(l) ==
    /\ Verifiable(l) /\ fresh < MaxPassword
    /\ accounts' = [accounts EXCEPT ![l.account].verified = TRUE, ![l.account].password = fresh]
    /\ cards' = [cards EXCEPT ![accounts[l.account].card].active = TRUE]
    /\ fresh' = fresh + 1

\* verified_client_from_token, under the locks of business, card and account
VerifiedClientFromToken(l) ==
    /\ Verifiable(l) /\ fresh < MaxPassword
    /\ accounts[l.account].pending => accepting
    /\ accounts' = [accounts EXCEPT ![l.account].verified = TRUE, ![l.account].pending = FALSE,
                                    ![l.account].expired = FALSE, ![l.account].password = fresh]
    /\ cards' = [cards EXCEPT ![accounts[l.account].card].active = TRUE,
                              ![accounts[l.account].card].email = l.email]
    /\ fresh' = fresh + 1

\* client_email_verify: the browser logs in after the commit, with the row just saved.
Verify(b, l) ==
    /\ VerifiedClientFromToken(l)
    /\ entering' = [entering EXCEPT ![b] = [account |-> l.account, password |-> fresh, email |-> l.email]]
    /\ proven' = proven \cup {l.account}
    /\ UNCHANGED <<accepting, invitations, post, claim, session, staff>>

-----------------------------------------------------------------------------
(* Sessions and passwords *)

MayEnter(a) == HasRow(a) /\ accounts[a].active /\ accounts[a].verified /\ Card(a).active

\* Variant: a session is not compared with today's password.
AcceptedByAccountOnly(b) == session[b] # Nil /\ MayEnter(session[b].account)

\* get_session_client_access; idle sessions are covered by Leave
Accepted(b) ==
    /\ session[b] # Nil
    /\ MayEnter(session[b].account)
    /\ session[b].password = accounts[session[b].account].password

\* client_access and authenticate_client_access, by someone who knows today's password
Authenticate(b, a) ==
    /\ MayEnter(a) /\ ~Accepted(b)
    /\ entering' = [entering EXCEPT ![b] = [account |-> a, password |-> accounts[a].password,
                                            email |-> accounts[a].email]]
    /\ UNCHANGED <<accepting, rows, post, claim, session, staff, fresh, proven>>

\* login_client_access: the fingerprint is that of the instance authenticated before.
Login(b) ==
    /\ entering[b] # Nil /\ HasRow(entering[b].account)
    /\ session' = [session EXCEPT ![b] = entering[b]]
    /\ entering' = [entering EXCEPT ![b] = Nil]
    /\ accounts' = [accounts EXCEPT ![entering[b].account].used = TRUE]
    /\ UNCHANGED <<accepting, cards, invitations, post, claim, staff, fresh, proven>>

\* Logout, an idle hour, or a session found invalid.
Leave(b) ==
    /\ session[b] # Nil \/ entering[b] # Nil
    /\ session' = [session EXCEPT ![b] = Nil]
    /\ entering' = [entering EXCEPT ![b] = Nil]
    /\ UNCHANGED <<accepting, rows, post, claim, staff, fresh, proven>>

RequestReset(a) ==
    /\ MayEnter(a)
    /\ mails' = Queued(mails, Letter("reset", a))
    /\ UNCHANGED <<accepting, rows, inbox, browsers, staff, fresh, proven>>

\* reset_client_password_from_token
ResetFromToken(l) ==
    /\ l.kind = "reset" /\ MayEnter(l.account) /\ fresh < MaxPassword
    /\ accounts[l.account].email = l.email /\ accounts[l.account].password = l.password
    /\ accounts' = [accounts EXCEPT ![l.account].password = fresh]
    /\ fresh' = fresh + 1

\* client_password_reset: a paused business logs the browser in, another one out.
ResetPassword(b, l) ==
    /\ ResetFromToken(l)
    /\ entering' = [entering EXCEPT ![b] = IF accepting THEN Nil
                                           ELSE [account |-> l.account, password |-> fresh, email |-> l.email]]
    /\ session' = IF accepting THEN [session EXCEPT ![b] = Nil] ELSE session
    /\ UNCHANGED <<accepting, cards, invitations, post, claim, staff, proven>>

-----------------------------------------------------------------------------
(* Invitations *)

\* is_available, and no account yet
Available(i) ==
    /\ IsRow(invitations[i])
    /\ invitations[i].state = "open" /\ ~invitations[i].expired /\ accepting
    /\ cards[invitations[i].card].active
    /\ ~HasAccount(invitations[i].card)

\* create_client_access_invitation revokes what is open before.
CreateInvitation(i, k) ==
    invitations' = [j \in Invites |->
                      IF j = i THEN [card |-> k, state |-> "open", expired |-> FALSE]
                      ELSE IF IsRow(invitations[j]) /\ invitations[j].card = k /\ invitations[j].state = "open"
                      THEN [invitations[j] EXCEPT !.state = "revoked"]
                      ELSE invitations[j]]

\* professional_client_invitation_create
Invite ==
    /\ \E i \in Invites, k \in OpenCards :
          /\ invitations[i] = Nil
          /\ cards[k].active /\ ~HasAccount(k)
          /\ CreateInvitation(i, k)
    /\ UNCHANGED <<accepting, cards, accounts, post, browsers, staff, fresh, proven>>

EndInvite ==
    /\ \E i \in Invites :
          /\ IsRow(invitations[i]) /\ invitations[i].state = "open"
          /\ \/ /\ ~invitations[i].expired
                /\ invitations' = [invitations EXCEPT ![i].expired = TRUE]
             \/ /\ ~invitations[i].expired /\ cards[invitations[i].card].active
                /\ invitations' = [invitations EXCEPT ![i].state = "revoked"]
    /\ UNCHANGED <<accepting, cards, accounts, post, browsers, staff, fresh, proven>>

\* client_invitation_claim: the link is exchanged for a claim of the browser.
Claim(b) ==
    /\ \E i \in Invites : Available(i) /\ claim' = [claim EXCEPT ![b] = i]
    /\ UNCHANGED <<accepting, rows, post, entering, session, staff, fresh, proven>>

\* Variant: the claim is trusted, the invitation is not read again.
ClaimedByBrowser(b) == claim[b] # Nil /\ accepting /\ ~HasAccount(invitations[claim[b]].card)

\* get_claimed_invitation, with business, invitation and card locked
Claimed(b) == claim[b] # Nil /\ Available(claim[b])

\* activate_claimed_invitation
ActivateClaimed(i, e, a) ==
    /\ accounts[a] = Nil /\ HoldersOf(e) = {} /\ fresh < MaxPassword
    /\ accounts' = [accounts EXCEPT ![a] = NewAccount(invitations[i].card, e, fresh, FALSE)]
    /\ invitations' = [invitations EXCEPT ![i].state = "used"]
    /\ fresh' = fresh + 1

\* client_invitation_activate
Activate(b) ==
    /\ Claimed(b)
    /\ \E e \in Emails, a \in Accounts : ActivateClaimed(claim[b], e, a)
    /\ claim' = [claim EXCEPT ![b] = Nil]
    /\ UNCHANGED <<accepting, cards, post, entering, session, staff, proven>>

DropClaim(b) ==
    /\ claim[b] # Nil /\ claim' = [claim EXCEPT ![b] = Nil]
    /\ UNCHANGED <<accepting, rows, post, entering, session, staff, fresh, proven>>

-----------------------------------------------------------------------------
(* The panel *)

\* create_or_reuse_professional_client; two at once are decided by the unique constraint.
CreateCard(k, w, e) ==
    /\ cards[k] = Nil /\ ~SameIdentity(cards, k, w)
    /\ cards' = [cards EXCEPT ![k] = [source |-> "professional", active |-> TRUE, merged |-> Nil,
                                      who |-> w, email |-> e, busy |-> FALSE, dismissed |-> Nil]]
    /\ UNCHANGED <<accepting, accounts, invitations, post, browsers, staff, fresh, proven>>

\* Variant: the verification of the old address is kept.
EditKeepsVerification(k, w, a, e) ==
    /\ accounts' = [accounts EXCEPT ![a].email = e]
    /\ mails' = mails /\ fresh' = fresh
    /\ cards' = [cards EXCEPT ![k].who = w, ![k].email = e]

\* update_professional_client on the address of an account: it must be proved again.
ChangeAddress(k, w, a, e) ==
    /\ accounts[a].active /\ cards[k].active /\ HoldersOf(e) \subseteq {a} /\ fresh < MaxPassword
    /\ accounts' = [accounts EXCEPT ![a].email = e, ![a].verified = FALSE, ![a].password = fresh]
    /\ mails' = Queued(mails, [kind |-> "verification", account |-> a, email |-> e, password |-> fresh])
    /\ fresh' = fresh + 1
    /\ cards' = [cards EXCEPT ![k].who = w, ![k].email = e]

EditCard ==
    /\ \E k \in OpenCards, w \in People, e \in Emails \cup {NoEmail} :
          /\ cards[k].source = "professional" => ~SameIdentity(cards, k, w)
          /\ \/ /\ ~HasAccount(k)
                /\ cards' = [cards EXCEPT ![k].who = w, ![k].email = e]
                /\ UNCHANGED <<accounts, mails, fresh>>
             \/ \E a \in Accounts :
                   /\ HasRow(a) /\ accounts[a].card = k /\ e \in Emails
                   /\ \/ /\ e = accounts[a].email
                         /\ cards' = [cards EXCEPT ![k].who = w, ![k].email = e]
                         /\ UNCHANGED <<accounts, mails, fresh>>
                      \/ e # accounts[a].email /\ ChangeAddress(k, w, a, e)
    /\ UNCHANGED <<accepting, invitations, inbox, browsers, staff, proven>>

\* Appointments, contacts, privacy records: anything the purge must respect.
UseCard(k) ==
    /\ k \in OpenCards
    /\ cards' = [cards EXCEPT ![k].busy = TRUE]
    /\ UNCHANGED <<accepting, accounts, invitations, post, browsers, staff, fresh, proven>>

\* professional_client_toggle and professional_client_access_toggle: the unlocked read
ReadToggle ==
    /\ staff = Nil
    /\ \/ \E k \in OpenCards : staff' = [op |-> "card", id |-> k, to |-> ~cards[k].active]
       \/ \E a \in Accounts :
             /\ HasRow(a)
             /\ ~accounts[a].active => Card(a).active
             /\ staff' = [op |-> "account", id |-> a, to |-> ~accounts[a].active]
    /\ UNCHANGED <<accepting, rows, post, browsers, fresh, proven>>

\* The database refuses an active merged card and a second active identity.
Savable(k, to) ==
    /\ IsRow(cards[k])
    /\ to => cards[k].merged = Nil
    /\ to /\ cards[k].source = "professional" => ~SameIdentity(cards, k, cards[k].who)

\* set_professional_client_active; a pending appointment may refuse the pause
SaveCardToggle ==
    /\ staff # Nil /\ staff.op = "card" /\ Savable(staff.id, staff.to)
    /\ cards' = [cards EXCEPT ![staff.id].active = staff.to]
    /\ staff' = Nil
    /\ UNCHANGED <<accepting, accounts, invitations, post, browsers, fresh, proven>>

\* set_client_access_active
SaveAccountToggle ==
    /\ staff # Nil /\ staff.op = "account" /\ HasRow(staff.id)
    /\ accounts' = [accounts EXCEPT ![staff.id].active = staff.to]
    /\ staff' = Nil
    /\ UNCHANGED <<accepting, cards, invitations, post, browsers, fresh, proven>>

\* A guard, a constraint or a lost request: nothing is saved.
AbandonToggle ==
    /\ staff # Nil /\ staff' = Nil
    /\ UNCHANGED <<accepting, rows, post, browsers, fresh, proven>>

\* _client_merge_candidate_from_records
MergeCandidate(p, o, a) ==
    /\ p # o /\ {p, o} \subseteq OpenCards
    /\ cards[p].active /\ cards[p].source = "professional"
    /\ cards[o].active /\ cards[o].source = "other"
    /\ HasRow(a) /\ accounts[a].card = o
    /\ accounts[a].active /\ accounts[a].verified /\ ~accounts[a].pending
    /\ ~HasAccount(p)
    /\ cards[p].who = cards[o].who
    /\ cards[p].email = accounts[a].email /\ cards[o].email = accounts[a].email

Fingerprint(k, a) == [kept |-> k, who |-> cards[k].who, email |-> accounts[a].email]

\* dismiss_client_merge_candidate: the list proposes the pair again when its data change.
Dismiss(p, o, a) ==
    /\ MergeCandidate(p, o, a) /\ cards[o].dismissed # Fingerprint(p, a)
    /\ cards' = [cards EXCEPT ![o].dismissed = Fingerprint(p, a)]
    /\ UNCHANGED <<accepting, accounts, invitations, post, browsers, staff, fresh, proven>>

\* Variant: the online card keeps its account.
MergeLeavingTheAccount(p, o, a) ==
    /\ MergeCandidate(p, o, a)
    /\ cards' = [cards EXCEPT ![o].active = FALSE, ![o].merged = p]
    /\ UNCHANGED <<accepting, accounts, invitations, post, browsers, staff, fresh, proven>>

\* merge_client_records: what it does to cards, account and invitations
Merge(p, o, a) ==
    /\ MergeCandidate(p, o, a)
    /\ accounts' = [accounts EXCEPT ![a].card = p]
    /\ invitations' = [i \in Invites |->
                         IF IsRow(invitations[i]) /\ invitations[i].card = o /\ invitations[i].state = "open"
                         THEN [invitations[i] EXCEPT !.state = "revoked"] ELSE invitations[i]]
    /\ cards' = [cards EXCEPT ![o].active = FALSE, ![o].merged = p, ![o].busy = FALSE, ![o].dismissed = Nil,
                              ![p].busy = cards[p].busy \/ cards[o].busy]
    /\ UNCHANGED <<accepting, post, browsers, staff, fresh, proven>>

-----------------------------------------------------------------------------
Registration ==
    \/ Register \/ Purge \/ MailStep
    \/ \E a \in Accounts : ExpireRegistration(a) \/ Resend(a) \/ RequestReset(a)
    \/ \E b \in Browsers, l \in inbox : Verify(b, l) \/ ResetPassword(b, l)

Visits ==
    \E b \in Browsers :
        \/ Login(b) \/ Leave(b) \/ Claim(b) \/ Activate(b) \/ DropClaim(b)
        \/ \E a \in Accounts : Authenticate(b, a)

PanelRows ==
    \/ \E k \in Cards, w \in People, e \in Emails \cup {NoEmail} : CreateCard(k, w, e)
    \/ \E k \in Cards : UseCard(k)
    \/ Invite \/ EndInvite \/ EditCard
    \/ ReadToggle \/ SaveAccountToggle \/ AbandonToggle
    \/ \E p, o \in Cards, a \in Accounts : Dismiss(p, o, a)

Panel ==
    \/ PanelRows \/ SaveCardToggle
    \/ \E p, o \in Cards, a \in Accounts : Merge(p, o, a)

Next == Registration \/ Visits \/ Panel \/ ToggleBusiness

Spec == Init /\ [][Next]_vars

(***************************************************************************)
(* The purge timer fires every 15 minutes; a mail that was leased is       *)
(* settled some day, a worker does not die at every attempt; and the term  *)
(* of a pending registration passes, unless its owner asks for the mail    *)
(* for ever.                                                               *)
(***************************************************************************)
Settle(a) == /\ MailStep
             /\ \E m \in mails : /\ m.letter.account = a /\ m.status \in Live
                              /\ m \notin mails' /\ [m EXCEPT !.status = "closed"] \in mails'

Fairness ==
    /\ WF_vars(Purge)
    /\ WF_vars(MailStep)
    /\ \A a \in Accounts : WF_vars(ExpireRegistration(a)) /\ SF_vars(Settle(a))

-----------------------------------------------------------------------------
(* Properties *)

\* Rows have their shape, an account has its card, and a verified account is not pending.
TypeOK ==
    /\ accepting \in BOOLEAN
    /\ \A k \in Cards : IsRow(cards[k]) => cards[k] \in CardRows
    /\ \A a \in Accounts :
          HasRow(a) => /\ accounts[a] \in AccountRows
                       /\ IsRow(Card(a))
                       /\ accounts[a].verified => ~accounts[a].pending
    /\ \A i \in Invites : IsRow(invitations[i]) => invitations[i] \in InviteRows
    /\ inbox \subseteq Letters
    /\ \A m \in mails : m.letter \in Letters /\ m.status \in MailStatus
    /\ \A b \in Browsers : claim[b] \in Invites \cup {Nil}

(***************************************************************************)
(* An account counts as verified only while a verification letter for it   *)
(* has reached the mailbox of the address it has NOW: editing the address, *)
(* merging cards or resending mails never carries a verification over.     *)
(***************************************************************************)
VerifiedByItsMailbox ==
    \A a \in Accounts :
        HasRow(a) /\ accounts[a].verified =>
            \E l \in inbox : l.kind = "verification" /\ l.account = a /\ l.email = accounts[a].email

(***************************************************************************)
(* A browser session that is let in was opened for the address the account *)
(* has now, by someone who proved or knew it: changing the address or the  *)
(* password ends every other session, those still being opened too.        *)
(***************************************************************************)
SessionsFollowTheMailbox ==
    \A b \in Browsers : Accepted(b) => session[b].email = accounts[session[b].account].email

Archived(k) == IsRow(cards[k]) /\ cards[k].merged # Nil
Inert(k) ==
    /\ ~cards[k].active /\ ~HasAccount(k)
    /\ \A i \in Invites : IsRow(invitations[i]) /\ invitations[i].card = k => invitations[i].state # "open"

(***************************************************************************)
(* What is over stays over, for whoever read it earlier and acts on it     *)
(* later.  A merge leaves a card behind without use, account or open       *)
(* invitation for good, although the panel may still save what it read;    *)
(* an invitation used, revoked or run out opens no account for a browser   *)
(* that claimed it before; and an account whose address was verified at    *)
(* some time is never purged as an abandoned registration.                 *)
(***************************************************************************)
WhatIsOverStaysOver == [][
    /\ \A k \in Cards : Archived(k)' => Inert(k)'
    /\ \A i \in Invites :
          IsRow(invitations[i]) /\ (invitations[i].state # "open" \/ invitations[i].expired)
             => \/ invitations'[i] = invitations[i]
                \/ invitations[i].state = "open" /\ invitations'[i].state = "revoked"
    /\ \A a \in proven : accounts'[a] # Gone]_vars

(***************************************************************************)
(* A public registration does not stay pending for ever: it is verified or *)
(* purged, unless the business keeps its card in use or activates it.      *)
(***************************************************************************)
Waiting(a)  == HasRow(a) /\ accounts[a].pending /\ ~Card(a).active /\ ~HasUnsafeUsage(a)
PendingComesToAnEnd == \A a \in Accounts : Waiting(a) ~> ~Waiting(a)

=============================================================================
