------------------------------ MODULE Notifier ------------------------------
(***************************************************************************)
(* What the notification subsystem promises to whoever reads the mails      *)
(* (README "通知": decision matrix and cooldown), with no word of runs,     *)
(* locks or files.  As long as the last mail is on record (`sure`), an      *)
(* alert repeats the same set of keys only after the cooldown, and a        *)
(* recovery answers an alert.                                               *)
(***************************************************************************)
EXTENDS Integers

CONSTANTS Items, SigKey, Cooldown

VARIABLES
    mail,   \* the last mail delivered
    sure    \* the system knows it

Keys(items) == {SigKey[i] : i \in items}

Init ==
    /\ mail.kind = "none"
    /\ sure = TRUE

Alert ==
    /\ mail'.kind = "alert"
    /\ mail'.items # {} /\ mail'.items \subseteq Items
    /\ \/ ~sure
       \/ mail.kind # "alert"
       \/ Keys(mail'.items) # Keys(mail.items)
       \/ mail'.at - mail.at >= Cooldown

Recovery ==
    /\ mail'.kind = "recovery"
    /\ mail'.items = {}
    /\ ~sure \/ mail.kind = "alert"

\* A mail that is sent is known to have been sent only later, or never.
Deliver == (Alert \/ Recovery) /\ ~sure'

\* Crashes, failed saves and unreadable state make it unsure; recording the
\* last mail makes it sure again.
Learn  == ~sure /\ sure' /\ UNCHANGED mail
Forget == sure /\ ~sure' /\ UNCHANGED mail

Next == Deliver \/ Learn \/ Forget

Spec == Init /\ [][Next]_<<mail, sure>>
=============================================================================
