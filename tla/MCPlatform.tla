------------------------------ MODULE MCPlatform ------------------------------
(***************************************************************************)
(* Small instances of the four components that serve the whole platform.   *)
(* No invariant here relates two of them, so each behaviour follows one:   *)
(* the demo's regeneration, the counters of attempts (of sign-ins, or of   *)
(* claims), the legal evidence (of the business, or of its clients), and   *)
(* the mailboxes (of accounts, of the notices, or of two first accounts).  *)
(***************************************************************************)
EXTENDS DemoRefresh, SecurityThrottle, LegalEvidence, Mailboxes

CONSTANTS
    desk,     \* the professional whom the clients meet
    screen    \* the panel in use where one is enough

ASSUME PlatformAssumption == desk \in Professionals /\ screen \in Panels

VARIABLE focus
mcvars == <<focus, demovars, throttlevars, legalvars, mailvars>>

Demo(A)      == focus = "demo" /\ A /\ UNCHANGED <<focus, throttlevars, legalvars, mailvars>>
Throttle(A)  == A /\ UNCHANGED <<focus, demovars, legalvars, mailvars>>
Legal(A)     == A /\ UNCHANGED <<focus, demovars, throttlevars, mailvars>>
Mail(A)      == A /\ Cardinality(mails') <= 2 /\ UNCHANGED <<focus, demovars, throttlevars, legalvars>>

SignIns ==
    \/ \E s \in Subjects : ReserveThrottleAttempts(s)
    \/ \E n \in 1 .. Len(tries) : Succeed(n) \/ Fail(n)
Claims == Look \/ \E n \in 1 .. Len(tries) : RecordFailedAttempt(n) \/ FindInvitation(n)
Passing == \E k \in Keys : WindowPasses(k) \/ BlockPasses(k) \/ Prune(k)

\* The clients see two pages, of a business that may change its rules meanwhile.
CustomerRules == RequireCompliance \/ Publish("customer") \/ Unpublish("customer") \/ \E p \in Profiles : EditProfile(p)
CardSteps ==
    /\ AtTheSalon \/ Clients \/ CustomerRules
    /\ Len(pages') <= 2 /\ \A r \in DOMAIN pages' : pages'[r].by \in Online \cup {desk}

BusinessSteps == AtTheBusiness /\ inForce'["customer"] = 1

\* What happens to accounts that exist; to the notices' address, with one panel at its
\* form; and while two panels create the first account of the business at once.
OwnAccounts == (\E p \in Panels : AccountSteps(p) \/ Abandon(p)) \/ Afterwards \/ QueueNotice
NoticeSteps ==
    /\ \/ \E p \in Panels : SettingsSteps(p) \/ BeginEdit(p) \/ EndEdit(p)
       \/ \E p \in Panels \ {screen} : EndActivation(p) \/ \E l \in inbox : BeginActivation(p, l)
       \/ Afterwards \/ QueueNotice \/ \E u \in Staff : ToggleMembership(u)
    /\ \A p \in Panels \ {screen} : panel'[p] # Blank => panel'[p].kind = "activate"
FirstAccounts ==
    \/ \E p \in Panels : EndCreate(p) \/ \E u \in Staff, m \in Addresses : BeginCreate(p, u, m)
    \/ EndActivation(screen) \/ ResendLink(screen)
    \/ \E l \in inbox : BeginActivation(screen, l)
    \/ \E u \in Staff : BeginSettings(screen, u)
    \/ Afterwards

MCInit ==
    /\ DInit /\ TInit /\ LInit /\ MInit
    /\ focus \in {"demo", "sign in", "claim", "business", "clients", "accounts", "notices", "first accounts"}
    /\ focus \in {"business", "clients"} \/ enabled
    /\ focus \in {"accounts", "notices", "first accounts"} \/ members = {}

MCNext ==
    \/ Demo(DNext)
    \/ focus = "sign in" /\ Throttle(SignIns \/ Passing)
    \/ focus = "claim" /\ Throttle(Claims \/ Passing)
    \/ focus = "business" /\ Legal(BusinessSteps)
    \/ focus = "clients" /\ Legal(CardSteps)
    \/ focus = "accounts" /\ Mail(OwnAccounts)
    \/ focus = "notices" /\ Mail(NoticeSteps)
    \/ focus = "first accounts" /\ Mail(FirstAccounts)

MCSpec == MCInit /\ [][MCNext]_mcvars

(***************************************************************************)
(* The dispatcher's timer fires every minute, a process that lives goes on *)
(* (each step has a timeout of systemd or of the script) and time passes.  *)
(* Nothing is assumed of faults, of requests or of the nightly timer.      *)
(***************************************************************************)
FairSpec ==
    /\ MCSpec
    /\ WF_mcvars(Demo(Tick)) /\ WF_mcvars(Demo(Launch)) /\ WF_mcvars(Demo(Finalize \/ FinalizeTimesOut))
    /\ WF_mcvars(Demo(EndJob)) /\ WF_mcvars(Demo(Copy \/ CopyFails))
    /\ \A r \in Requests : WF_mcvars(Demo(Expire(r)))
    /\ \A s \in Slots : WF_mcvars(Demo(OrchStep(s)))

\* The two disagreements: one needs nothing but submissions, the other nothing but sign-ins.
Onboarding == \E u \in Professionals : Onboard(u) \/ \E r \in DOMAIN pages, p \in Profiles : AcceptDocuments(u, r, p)
SpecBusiness ==
    /\ MCInit /\ focus = "business"
    /\ [][Legal(Onboarding)]_mcvars
SpecSignIns ==
    /\ MCInit /\ focus = "sign in"
    /\ [][Throttle(SignIns \/ Passing)]_mcvars

\* The four components' values keep their types.
PlatformTypeOK == DTypeOK /\ TTypeOK /\ LTypeOK /\ MTypeOK
=============================================================================
