------------------------------- MODULE Mailboxes -------------------------------
(***************************************************************************)
(* Who has shown to read which mailbox: the accounts of a business' staff,  *)
(* the address of its operational notices, and the mails that carry links  *)
(* to confirm either.  A request reads its row first and saves later, some *)
(* of them the whole row, so the rows a request holds are in `panel'.      *)
(* The password and the age in a link only refuse more and are left out.   *)
(***************************************************************************)
EXTENDS Naturals

CONSTANTS
    Staff,        \* accounts of professionals
    Addresses,
    Panels,       \* requests in progress
    MaxNonce,     \* bound on the changes of the notices' address
    Blank

VARIABLES
    staff,        \* User
    members,      \* accounts with an active BusinessMembership
    channel,      \* the notification fields of Business
    nonces,       \* nonces given out; the row is created with nonce 0
    panel,        \* request: what it has read
    reuse,        \* account: the verification to be reused for the channel after its commit
    mails,        \* OutboundEmail rows still to be sent
    inbox,        \* what mailboxes have received
    proved        \* history: addresses whose mailbox brought back a link

mailvars == <<staff, members, channel, nonces, panel, reuse, mails, inbox, proved>>

Accounts == [active : BOOLEAN, email : Addresses \cup {Blank}, verified : BOOLEAN, required : BOOLEAN]
ChannelRows == [email : Addresses \cup {Blank}, nonce : 0 .. MaxNonce, verified : BOOLEAN, enabled : BOOLEAN]
Mails == [kind : {"activation", "account"}, who : Staff, to : Addresses, nonce : {0}]
         \cup [kind : {"channel", "notice"}, who : {Blank}, to : Addresses, nonce : 0 .. MaxNonce]
PanelRows == [kind : {"create"}, user : Staff, email : Addresses, proposes : BOOLEAN]
             \cup [kind : {"edit", "settings"}, row : ChannelRows]
             \cup [kind : {"activate", "password"}, user : Staff, row : Accounts]
             \cup [kind : {"address"}, user : Staff]

ASSUME MailboxAssumption ==
    /\ MaxNonce \in Nat /\ "due" \notin Addresses /\ Blank # "due"
    /\ Blank \notin Addresses /\ Blank \notin Accounts /\ Blank \notin PanelRows

OldAccount    == [active |-> TRUE, email |-> Blank, verified |-> FALSE, required |-> TRUE]
NewAccount(m) == [active |-> FALSE, email |-> m, verified |-> FALSE, required |-> TRUE]
Proposed(m)   == [email |-> m, nonce |-> 0, verified |-> FALSE, enabled |-> TRUE]

\* superadmin_business_create makes the first professional's address the channel's; an
\* account from before the addresses has to give one; or nobody works there yet.
MInit ==
    /\ \/ staff = [u \in Staff |-> Blank] /\ members = {} /\ channel = Proposed(Blank)
       \/ \E u \in Staff, m \in Addresses \cup {Blank} :
             /\ staff = [v \in Staff |-> IF v # u THEN Blank ELSE IF m = Blank THEN OldAccount ELSE NewAccount(m)]
             /\ members = {u} /\ channel = Proposed(m)
    /\ nonces = 0 /\ panel = [p \in Panels |-> Blank] /\ reuse = [u \in Staff |-> Blank]
    /\ mails = {} /\ inbox = {} /\ proved = {}

-----------------------------------------------------------------------------
Known(u)  == staff[u] # Blank
Opened(u) == Known(u) /\ staff[u].active

\* The middleware keeps an account with an address to verify out of the panels.
Works(u) == Opened(u) /\ u \in members /\ ~staff[u].required

\* _business_can_receive_operational_notices
CanReceive == \E u \in members : Opened(u)

Taken(m, u) == \E v \in Staff \ {u} : Known(v) /\ staff[v].email = m
Creating(p) == panel[p] # Blank /\ panel[p].kind = "create"

Letter(kind, u, m, nonce) == [kind |-> kind, who |-> u, to |-> m, nonce |-> nonce]

\* A mail is queued after the commit: a crash or a limit of attempts leaves it out.
MayQueue(letter) == mails' = mails \/ mails' = mails \cup {letter}

Holds(p, request) == panel[p] = Blank /\ panel' = [panel EXCEPT ![p] = request]
Releases(p, kind) == panel[p] # Blank /\ panel[p].kind = kind /\ panel' = [panel EXCEPT ![p] = Blank]

-----------------------------------------------------------------------------
(* The platform's panel *)

\* superadmin_professional_create, up to its count of memberships; the unique
\* phone and address keep two transactions from creating the same account.
BeginCreate(p, u, m) ==
    /\ ~Known(u) /\ ~Taken(m, u)
    /\ \A q \in Panels : Creating(q) => panel[q].user # u /\ panel[q].email # m
    /\ Holds(p, [kind |-> "create", user |-> u, email |-> m,
                 proposes |-> channel.email = Blank /\ \A v \in Staff : ~Known(v)])
    /\ UNCHANGED <<staff, members, channel, nonces, reuse, mails, inbox, proved>>

\* ... and its commit: the address is proposed without a new nonce.
EndCreate(p) ==
    /\ Releases(p, "create")
    /\ LET c == panel[p] IN
       /\ ~Taken(c.email, c.user)
       /\ staff' = [staff EXCEPT ![c.user] = NewAccount(c.email)] /\ members' = members \cup {c.user}
       /\ channel' = IF c.proposes THEN [channel EXCEPT !.email = c.email, !.verified = FALSE] ELSE channel
    /\ UNCHANGED <<nonces, reuse, mails, inbox, proved>>

\* The first activation mail and superadmin_professional_activation_resend
AskActivation(u) ==
    /\ Known(u) /\ ~staff[u].active /\ staff[u].email # Blank
    /\ mails' = mails \cup {Letter("activation", u, staff[u].email, 0)}
    /\ UNCHANGED <<staff, members, channel, nonces, panel, reuse, inbox, proved>>

\* superadmin_membership_toggle
ToggleMembership(u) ==
    /\ Known(u) /\ members' = (members \cup {u}) \ (members \cap {u})
    /\ UNCHANGED <<staff, channel, nonces, panel, reuse, mails, inbox, proved>>

\* superadmin_business_edit saves every field of the row it read.
BeginEdit(p) ==
    /\ Holds(p, [kind |-> "edit", row |-> channel])
    /\ UNCHANGED <<staff, members, channel, nonces, reuse, mails, inbox, proved>>
EndEdit(p) ==
    /\ Releases(p, "edit") /\ channel' = panel[p].row
    /\ UNCHANGED <<staff, members, nonces, reuse, mails, inbox, proved>>

-----------------------------------------------------------------------------
(* Accounts *)

\* _user_from_token for an account that is not active yet
OpensAccount(l) == l.kind = "activation" /\ Known(l.who) /\ ~staff[l.who].active /\ staff[l.who].email = l.to

\* professional_activate reads the account without a lock and saves all of it.
BeginActivation(p, l) ==
    /\ OpensAccount(l) /\ Holds(p, [kind |-> "activate", user |-> l.who, row |-> staff[l.who]])
    /\ proved' = proved \cup {l.to}
    /\ UNCHANGED <<staff, members, channel, nonces, reuse, mails, inbox>>
EndActivation(p) ==
    /\ Releases(p, "activate")
    /\ LET u == panel[p].user IN
       /\ staff' = [staff EXCEPT ![u] = [panel[p].row EXCEPT !.active = TRUE, !.verified = TRUE, !.required = FALSE]]
       /\ reuse' = [reuse EXCEPT ![u] = "due"]
    /\ UNCHANGED <<members, channel, nonces, mails, inbox, proved>>

\* account_security: a new password, saved with the rest of the account as it was read.
BeginPassword(p, u) ==
    /\ Opened(u) /\ Holds(p, [kind |-> "password", user |-> u, row |-> staff[u]])
    /\ UNCHANGED <<staff, members, channel, nonces, reuse, mails, inbox, proved>>
EndPassword(p) ==
    /\ Releases(p, "password") /\ staff' = [staff EXCEPT ![panel[p].user] = panel[p].row]
    /\ UNCHANGED <<members, channel, nonces, reuse, mails, inbox, proved>>

\* account_email
BeginAddress(p, u) ==
    /\ Opened(u) /\ ~(staff[u].verified /\ ~staff[u].required)
    /\ Holds(p, [kind |-> "address", user |-> u])
    /\ UNCHANGED <<staff, members, channel, nonces, reuse, mails, inbox, proved>>
EndAddress(p, m) ==
    /\ Releases(p, "address")
    /\ LET u == panel[p].user IN
       /\ ~Taken(m, u) /\ \A q \in Panels : Creating(q) => panel[q].email # m
       /\ staff' = [staff EXCEPT ![u] = [@ EXCEPT !.email = m, !.verified = FALSE, !.required = TRUE]]
       /\ MayQueue(Letter("account", u, m, 0))
    /\ UNCHANGED <<members, channel, nonces, reuse, inbox, proved>>

\* _verify_professional_email_from_token, the account locked
VerifyAccount(l) ==
    /\ l.kind \in {"account", "activation"}
    /\ Opened(l.who) /\ ~staff[l.who].verified /\ staff[l.who].email = l.to
    /\ staff' = [staff EXCEPT ![l.who] = [@ EXCEPT !.verified = TRUE, !.required = FALSE]]
    /\ reuse' = [reuse EXCEPT ![l.who] = "due"] /\ proved' = proved \cup {l.to}
    /\ UNCHANGED <<members, channel, nonces, panel, mails, inbox>>

\* mark_operational_email_verified_from_account_on_commit reads the account again,
LookAtAccount(u) ==
    /\ reuse[u] = "due"
    /\ reuse' = [reuse EXCEPT ![u] = IF staff[u].verified THEN staff[u].email ELSE Blank]
    /\ UNCHANGED <<staff, members, channel, nonces, panel, mails, inbox, proved>>
\* and the business row, locked, only if it has that address and is not verified;
Reuse(u) ==
    /\ reuse[u] \in Addresses /\ reuse' = [reuse EXCEPT ![u] = Blank]
    /\ channel' = IF u \in members /\ channel.email = reuse[u] THEN [channel EXCEPT !.verified = TRUE] ELSE channel
    /\ UNCHANGED <<staff, members, nonces, panel, mails, inbox, proved>>
\* a failure there is swallowed.
LoseReuse(u) ==
    /\ reuse[u] # Blank /\ reuse' = [reuse EXCEPT ![u] = Blank]
    /\ UNCHANGED <<staff, members, channel, nonces, panel, mails, inbox, proved>>

-----------------------------------------------------------------------------
(* The address of the notices *)

\* An account of the business that is verified with this address
Vouched(m) == \E u \in members : Opened(u) /\ staff[u].verified /\ staff[u].email = m

\* BusinessNotificationSettingsForm.save, _apply_email_state
Applied(row, m, on) ==
    [email |-> m, nonce |-> IF m = row.email THEN row.nonce ELSE nonces + 1,
     verified |-> m # Blank /\ ((m = row.email /\ row.verified) \/ Vouched(m)), enabled |-> on /\ m # Blank]

\* professional_settings: saved if anything changed; the link goes out for a new address
\* or when it is asked for.
BeginSettings(p, u) ==
    /\ Works(u) /\ Holds(p, [kind |-> "settings", row |-> channel])
    /\ UNCHANGED <<staff, members, channel, nonces, reuse, mails, inbox, proved>>
AskForLink(row) ==
    IF row.email # Blank /\ ~row.verified /\ CanReceive
      THEN MayQueue(Letter("channel", Blank, row.email, row.nonce)) ELSE UNCHANGED mails
SaveSettings(p, m, on) ==
    /\ Releases(p, "settings")
    /\ LET row == panel[p].row IN
       /\ channel' = Applied(row, m, on)
       /\ nonces' = IF m = row.email THEN nonces ELSE nonces + 1
       /\ nonces' <= MaxNonce /\ AskForLink(channel')
    /\ UNCHANGED <<staff, members, reuse, inbox, proved>>
ResendLink(p) ==
    /\ Releases(p, "settings") /\ AskForLink(panel[p].row)
    /\ UNCHANGED <<staff, members, channel, nonces, reuse, inbox, proved>>

\* Variant: the nonce alone identifies the address.
NonceFits(l) == l.kind = "channel" /\ channel.nonce = l.nonce /\ ~channel.verified

\* operational_email_target_from_token: address, nonce and still to be verified
FitsChannel(l) == l.kind = "channel" /\ channel.email = l.to /\ channel.nonce = l.nonce /\ ~channel.verified

\* verify_operational_email looks again under the lock, for a professional of the business.
VerifyChannel(l) ==
    /\ FitsChannel(l) /\ \E u \in Staff : Works(u)
    /\ channel' = [channel EXCEPT !.verified = TRUE] /\ proved' = proved \cup {l.to}
    /\ UNCHANGED <<staff, members, nonces, panel, reuse, mails, inbox>>

\* queue_operational_notice: anything worth telling, a failed mail included
QueueNotice ==
    /\ CanReceive /\ channel.enabled /\ channel.email # Blank /\ channel.verified
    /\ mails' = mails \cup {Letter("notice", Blank, channel.email, 0)}
    /\ UNCHANGED <<staff, members, channel, nonces, panel, reuse, inbox, proved>>

-----------------------------------------------------------------------------
\* _is_still_valid
StillStands(l) ==
    CASE l.kind = "activation" -> Known(l.who) /\ ~staff[l.who].active /\ staff[l.who].email = l.to
      [] l.kind = "account"    -> Opened(l.who) /\ ~staff[l.who].verified /\ staff[l.who].email = l.to
      [] l.kind = "channel"    -> CanReceive /\ FitsChannel(l)
      [] l.kind = "notice"     -> CanReceive /\ channel.email = l.to /\ channel.enabled /\ channel.verified

\* _dispatch_claim and _delivery_context: the link is made of the row that was just
\* looked at, so it says the address the mail goes to.
Deliver(l) ==
    /\ l \in mails /\ mails' = mails \ {l}
    /\ inbox' = IF StillStands(l) THEN inbox \cup {l} ELSE inbox
    /\ UNCHANGED <<staff, members, channel, nonces, panel, reuse, proved>>

\* A form with errors, a lost connection, a crash
Abandon(p) ==
    /\ panel[p] # Blank /\ panel' = [panel EXCEPT ![p] = Blank]
    /\ UNCHANGED <<staff, members, channel, nonces, reuse, mails, inbox, proved>>

Platform(p) ==
    \/ \E u \in Staff, m \in Addresses : BeginCreate(p, u, m)
    \/ EndCreate(p) \/ BeginEdit(p) \/ EndEdit(p)
AccountSteps(p) ==
    \/ \E l \in inbox : BeginActivation(p, l)
    \/ \E u \in Staff : BeginPassword(p, u) \/ BeginAddress(p, u)
    \/ EndActivation(p) \/ EndPassword(p) \/ \E m \in Addresses : EndAddress(p, m)
SettingsSteps(p) ==
    \/ \E u \in Staff : BeginSettings(p, u)
    \/ ResendLink(p) \/ \E m \in Addresses \cup {Blank}, on \in BOOLEAN : SaveSettings(p, m, on)
Afterwards ==
    \/ \E u \in Staff : AskActivation(u) \/ LookAtAccount(u) \/ Reuse(u) \/ LoseReuse(u)
    \/ \E l \in inbox : VerifyAccount(l) \/ VerifyChannel(l)
    \/ \E l \in mails : Deliver(l)

MNext ==
    \/ \E p \in Panels : Platform(p) \/ AccountSteps(p) \/ SettingsSteps(p) \/ Abandon(p)
    \/ Afterwards \/ QueueNotice \/ \E u \in Staff : ToggleMembership(u)

-----------------------------------------------------------------------------
MSpec == MInit /\ [][MNext]_mailvars

-----------------------------------------------------------------------------
\* The rows have the shape of the models, and a request holds a row it could read.
MTypeOK ==
    /\ staff \in [Staff -> Accounts \cup {Blank}] /\ members \subseteq {u \in Staff : Known(u)}
    /\ channel \in ChannelRows /\ nonces \in 0 .. MaxNonce
    /\ reuse \in [Staff -> Addresses \cup {Blank, "due"}]
    /\ mails \subseteq Mails /\ inbox \subseteq Mails /\ proved \subseteq Addresses
    /\ panel \in [Panels -> PanelRows \cup {Blank}]
    /\ \A p \in Panels : panel[p] # Blank /\ panel[p].kind \in {"activate", "password", "address"} =>
          Known(panel[p].user)
    /\ \A u \in Staff : reuse[u] = "due" => Known(u)

\* An account or the notices' channel counts as verified only with an address whose own
\* mailbox brought back a link, and no notice reaches any other mailbox: whatever row a
\* request saves late, whichever account vouches, and when an address goes and comes back
\* (_apply_email_state, operational_email_target_from_token, the reuse after a commit).
MailboxesAreProved ==
    /\ \A u \in Staff : Known(u) /\ staff[u].verified => staff[u].email \in proved
    /\ channel.verified => channel.email \in proved
    /\ \A l \in inbox : l.kind = "notice" => l.to \in proved
=============================================================================
