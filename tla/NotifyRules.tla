----------------------------- MODULE NotifyRules -----------------------------
(***************************************************************************)
(* The decision rules of the notification subsystem (notify/persistence.go, *)
(* trigger.go, signature.go and the choice made by Dispatch) as pure        *)
(* operators: what a run computes from the state file it read, the raw      *)
(* warnings it collected and the wall clock.  The state machines that use   *)
(* them say when each is evaluated and which results reach the disk.        *)
(*                                                                          *)
(* An item stands for one (Host, Field) pair, a raw alert list for the set  *)
(* of its items: every rule depends on membership only.  SHA-256 is taken   *)
(* to be injective, so a signature is the set of normalised keys it hashes. *)
(*                                                                          *)
(* A definition X_Change is a deliberately wrong variant of X, next to it: the *)
(* change a plausible bug would make, which some property must notice.      *)
(***************************************************************************)
EXTENDS Integers

CONSTANTS
    Items,            \* (Host, Field) keys that may warn
    SigKeys,          \* keys after the vhost-level normalisation of queues
    SigKey,           \* normalizeFieldForSignature: item -> key
    ConsecutiveRuns,  \* persistence.consecutive_runs (N), at least 1 once loaded
    PendingTTL,       \* pendingTTL
    Cooldown,         \* trigger.min_interval_minutes
    SendRecovery      \* trigger.send_recovery

ASSUME RulesAssumption ==
    /\ SigKey \in [Items -> SigKeys]
    /\ ConsecutiveRuns \in Nat \ {0}
    /\ PendingTTL \in Nat
    /\ Cooldown \in Nat
    /\ SendRecovery \in BOOLEAN

(* State of notify/state.go.  A key absent from the pending map has count 0:
   the code never stores a zero count. *)
PendingItem == [count : Nat, firstSeen : Nat]
NotPending  == [count |-> 0, firstSeen |-> 0]
State == [sentAt : Nat, signature : SUBSET SigKeys, status : {"", "alert", "ok"},
          pending : [Items -> PendingItem], streak : Nat]

\* What LoadState returns for a missing, unreadable or damaged file.
ColdState == [sentAt |-> 0, signature |-> {}, status |-> "",
              pending |-> [i \in Items |-> NotPending], streak |-> 0]

-----------------------------------------------------------------------------
(* Persistence *)

Accrued_OffByOne(i, pending, now) ==
    IF pending[i].count > 0
    THEN [pending[i] EXCEPT !.count = @ + 1]
    ELSE [count |-> 2, firstSeen |-> now]

\* The entry the loop of ApplyPersistence computes for a warning item.
Accrued(i, pending, now) ==
    IF pending[i].count > 0 /\ now - pending[i].firstSeen < PendingTTL
    THEN [pending[i] EXCEPT !.count = @ + 1]
    ELSE [count |-> 1, firstSeen |-> now]

\* PersistenceResult.Filtered: the items that fire this run.  With N = 1 all do.
Filtered(raw, pending, now) ==
    {i \in raw : Accrued(i, pending, now).count >= ConsecutiveRuns}

NextPending_KeepsAbsent(raw, pending, now) ==
    [i \in Items |-> IF i \in raw \ Filtered(raw, pending, now)
                     THEN Accrued(i, pending, now)
                     ELSE IF i \in raw THEN NotPending ELSE pending[i]]

\* PersistenceResult.NextPending: promoted and absent keys are dropped.
NextPending(raw, pending, now) ==
    [i \in Items |-> IF i \in raw \ Filtered(raw, pending, now)
                     THEN Accrued(i, pending, now)
                     ELSE NotPending]

UpdateRecoveryStreak_NoReset(streak, status, raw) ==
    IF status = "alert" THEN IF raw = {} THEN streak + 1 ELSE streak ELSE 0

\* Quiet runs in a row since an alert is out.
UpdateRecoveryStreak(streak, status, raw) ==
    IF status = "alert" /\ raw = {} THEN streak + 1 ELSE 0

-----------------------------------------------------------------------------
(* Signature and decision *)

Signature_PerQueue(items) == items

\* Signature: the normalised keys; "" (no items) is the empty set.
Signature(items) == {SigKey[i] : i \in items}

Decide_NoCooldown(now, prev, items) ==
    IF items = {} THEN IF prev.status = "alert" THEN "recovery" ELSE "none"
    ELSE "alert"

\* The decision matrix of Decide.
Decide(now, prev, items) ==
    IF items = {} THEN IF prev.status = "alert" THEN "recovery" ELSE "none"
    ELSE IF \/ prev.status # "alert"
            \/ Signature(items) # prev.signature
            \/ now - prev.sentAt >= Cooldown
         THEN "alert" ELSE "none"

\* The switch at the head of Dispatch, and the send_recovery override.
DispatchAction_EagerRecovery(prev, raw, now) ==
    Decide(now, prev, Filtered(raw, prev.pending, now))

DispatchAction(prev, raw, now) ==
    LET fired  == Filtered(raw, prev.pending, now)
        streak == UpdateRecoveryStreak(prev.streak, prev.status, raw)
        act    == IF prev.status = "alert" /\ fired = {}
                  THEN IF raw = {} /\ streak >= ConsecutiveRuns THEN "recovery" ELSE "none"
                  ELSE Decide(now, prev, fired)
    IN  IF act = "recovery" /\ ~SendRecovery THEN "none" ELSE act

NextState_OldTime(prev, raw, now, act) ==
    [prev EXCEPT !.pending = NextPending(raw, prev.pending, now),
                 !.status = CASE act = "none" -> @ [] act = "alert" -> "alert" [] OTHER -> "ok",
                 !.signature = IF act = "none" THEN @
                               ELSE Signature(Filtered(raw, prev.pending, now)),
                 !.streak = IF act = "none"
                            THEN UpdateRecoveryStreak(@, prev.status, raw) ELSE 0]

NextState_StatusIsAction(prev, raw, now, act) ==
    [sentAt |-> now, signature |-> Signature(Filtered(raw, prev.pending, now)),
     status |-> IF act = "none" THEN prev.status ELSE act,
     pending |-> NextPending(raw, prev.pending, now),
     streak |-> IF act = "none"
                THEN UpdateRecoveryStreak(prev.streak, prev.status, raw) ELSE 0]

NextState_StreakLost(prev, raw, now, act) ==
    LET pending == NextPending(raw, prev.pending, now)
    IN  IF act = "none" THEN [prev EXCEPT !.pending = pending, !.streak = 0]
        ELSE [sentAt |-> now, signature |-> Signature(Filtered(raw, prev.pending, now)),
              status |-> IF act = "alert" THEN "alert" ELSE "ok",
              pending |-> pending, streak |-> 0]

\* The state Dispatch hands to SaveState once `act` was taken.
NextState(prev, raw, now, act) ==
    LET pending == NextPending(raw, prev.pending, now)
    IN  CASE act = "none" ->
               [prev EXCEPT !.pending = pending,
                            !.streak = UpdateRecoveryStreak(prev.streak, prev.status, raw)]
          [] act = "alert" ->
               [sentAt |-> now, signature |-> Signature(Filtered(raw, prev.pending, now)),
                status |-> "alert", pending |-> pending, streak |-> 0]
          [] act = "recovery" ->
               [sentAt |-> now, signature |-> {}, status |-> "ok",
                pending |-> pending, streak |-> 0]
=============================================================================
