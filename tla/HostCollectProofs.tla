-------------------------- MODULE HostCollectProofs --------------------------
(***************************************************************************)
(* Proofs about HostCollect for every set of hosts.                         *)
(***************************************************************************)
EXTENDS HostCollect, TLAPS

LEMMA ReplyRange == \A r \in Reply : r \in [out : 0 .. Whole, err : BOOLEAN]
  BY DEF Reply

LEMMA SilenceReply == Silence \in Reply
  BY CollectAssumption DEF Silence, Reply, Whole

LEMMA ErrorSet ==
    ASSUME NEW m \in HostMetrics
    PROVE  /\ [m EXCEPT !.error = "ssh"] \in HostMetrics
           /\ [m EXCEPT !.error = "ssh"].error = "ssh"
           /\ [m EXCEPT !.error = "ssh"].got = m.got
  BY DEF HostMetrics

LEMMA FirstSampleResult ==
    ASSUME TypeOK, NEW h \in Hosts, NEW r \in Reply, FirstSample(h, r)
    PROVE  /\ result' \in [Hosts -> HostMetrics] /\ first' \in SUBSET Hosts
           /\ first \subseteq first'
           /\ result'[h].got = result[h].got
           /\ h \in first' \/ result'[h].error = "ssh"
           /\ \A g \in Hosts : g # h => result'[g] = result[g]
  <1>1. result \in [Hosts -> HostMetrics] /\ first \in SUBSET Hosts
    BY DEF TypeOK
  <1>2. CASE r.err
    <2> DEFINE m == [result[h] EXCEPT !.error = "ssh"]
    <2>1. result' = [result EXCEPT ![h] = m] /\ first' = first
      BY <1>2 DEF FirstSample
    <2>2. m \in HostMetrics /\ m.error = "ssh" /\ m.got = result[h].got
      BY <1>1, ErrorSet
    <2> HIDE DEF m
    <2>3. QED
      BY <1>1, <2>1, <2>2
  <1>3. CASE ~r.err
    BY <1>1, <1>3 DEF FirstSample
  <1>4. QED
    BY <1>2, <1>3

LEMMA ReturnType ==
    ASSUME TypeOK, NEW c \in Calls, NEW r \in Reply, Return(c, r)
    PROVE  result' \in [Hosts -> HostMetrics] /\ first' \in SUBSET Hosts
  <1>1. c[1] \in Hosts /\ r.out \in 0 .. Sections + 1
    BY ReplyRange DEF Calls, Whole
  <1>2. parseHostOutput(r) \in HostMetrics
    BY <1>1, CollectAssumption DEF parseHostOutput, HostMetrics
  <1>3. CASE FirstSample(c[1], r)
    BY <1>1, <1>3, FirstSampleResult
  <1>4. CASE Measure(c[1], r)
    BY <1>1, <1>2, <1>4 DEF TypeOK, Measure
  <1>5. QED
    BY <1>3, <1>4 DEF Return

LEMMA TypeInit == Init => TypeOK
  <1> SUFFICES ASSUME Init PROVE TypeOK
    OBVIOUS
  <1>1. result \in [Hosts -> HostMetrics]
    <2>1. [error |-> "", got |-> 0] \in HostMetrics
      BY CollectAssumption DEF HostMetrics
    <2>2. QED
      BY <2>1 DEF Init
  <1>2. at \in [Calls -> {"idle", "dial", "exec", "done"}]
    BY DEF Init
  <1>3. chan \in [Calls -> Reply \cup {NoReply}]
    BY DEF Init
  <1>4. stuck \in SUBSET Hosts
    BY DEF Init
  <1>5. QED
    BY <1>1, <1>2, <1>3, <1>4 DEF Init, TypeOK

LEMMA TypeStep == TypeOK /\ [Next]_vars => TypeOK'
  <1> SUFFICES ASSUME TypeOK, [Next]_vars PROVE TypeOK'
    OBVIOUS
  <1>1. CASE BeginSecond \/ Finish
    BY <1>1 DEF TypeOK, BeginSecond, Finish
  <1>2. ASSUME NEW c \in Calls, DialFailed(c) \/ Timeout(c) PROVE TypeOK'
    <2>1. result' \in [Hosts -> HostMetrics] /\ first' \in SUBSET Hosts
      BY <1>2, SilenceReply, ReturnType DEF DialFailed, Timeout
    <2>2. QED
      BY <1>2, <2>1 DEF TypeOK, DialFailed, Timeout, Moves
  <1>3. ASSUME NEW c \in Calls, Received(c) PROVE TypeOK'
    <2>1. result' \in [Hosts -> HostMetrics] /\ first' \in SUBSET Hosts
      BY <1>3, ReturnType DEF Received
    <2>2. QED
      BY <1>3, <2>1 DEF TypeOK, Received, Moves
  <1>4. ASSUME NEW c \in Calls, Connected(c) PROVE TypeOK'
    BY <1>4 DEF TypeOK, Connected, Moves
  <1>5. ASSUME NEW c \in Calls, NEW r \in Reply, Ended(c, r) PROVE TypeOK'
    BY <1>5 DEF TypeOK, Ended
  <1>6. ASSUME NEW c \in Calls, Answer(c) \/ Hangup(c) PROVE TypeOK'
    BY <1>5, <1>6, SilenceReply DEF Answer, Hangup
  <1>7. CASE UNCHANGED vars
    BY <1>7 DEF TypeOK, vars
  <1>8. QED
    BY <1>1, <1>2, <1>3, <1>4, <1>6, <1>7 DEF Next, Call

-----------------------------------------------------------------------------

\* Rounds do not overlap, and whoever is called again left a first sample.
RoundInv ==
    \A h \in Hosts :
        /\ phase # "first" => at[<<h, 1>>] = "done"
        /\ phase = "first" => at[<<h, 2>>] = "idle" /\ result[h].got = 0
        /\ at[<<h, 1>>] = "done" => h \in first \/ result[h].error = "ssh"
        /\ at[<<h, 2>>] # "idle" => h \in first
        /\ at[<<h, 2>>] = "idle" => result[h].got = 0

CollectInv == TypeOK /\ RoundInv

LEMMA RoundReturn ==
    ASSUME CollectInv, NEW c \in Calls, NEW r \in Reply, at[c] \in {"dial", "exec"},
           at' = [at EXCEPT ![c] = "done"], Return(c, r), phase' = phase
    PROVE  RoundInv'
  <1>1. PICK g \in Hosts, k \in {1, 2} : c = <<g, k>>
    BY DEF Calls
  <1>2. CASE k = 1
    <2>1. phase = "first" /\ FirstSample(g, r)
      BY <1>1, <1>2 DEF CollectInv, RoundInv, Return, TypeOK
    <2>2. ASSUME NEW h \in Hosts, h # g
          PROVE  /\ at'[<<h, 1>>] = at[<<h, 1>>] /\ at'[<<h, 2>>] = at[<<h, 2>>]
                 /\ result'[h] = result[h]
                 /\ h \in first => h \in first'
      BY <1>1, <2>1, <2>2, FirstSampleResult DEF CollectInv, TypeOK, Calls
    <2>3. /\ at'[<<g, 2>>] = at[<<g, 2>>]
          /\ result'[g].got = result[g].got
          /\ g \in first' \/ result'[g].error = "ssh"
      BY <1>1, <1>2, <2>1, FirstSampleResult DEF CollectInv, TypeOK, Calls
    <2>4. QED
      BY <2>1, <2>2, <2>3 DEF CollectInv, RoundInv
  <1>3. CASE k = 2
    <2>1. phase # "first" /\ Measure(g, r) /\ g \in first
      BY <1>1, <1>3 DEF CollectInv, RoundInv, Return, TypeOK
    <2>2. ASSUME NEW h \in Hosts, h # g
          PROVE  /\ at'[<<h, 1>>] = at[<<h, 1>>] /\ at'[<<h, 2>>] = at[<<h, 2>>]
                 /\ result'[h] = result[h]
      BY <1>1, <2>1, <2>2 DEF Measure, CollectInv, TypeOK, Calls
    <2>3. at'[<<g, 1>>] = at[<<g, 1>>] /\ at'[<<g, 2>>] = "done" /\ first' = first
      BY <1>1, <1>3, <2>1 DEF Measure, CollectInv, TypeOK, Calls
    <2>4. QED
      BY <2>1, <2>2, <2>3 DEF CollectInv, RoundInv
  <1>4. QED
    BY <1>1, <1>2, <1>3

LEMMA RoundStep == CollectInv /\ [Next]_vars => RoundInv'
  <1> SUFFICES ASSUME CollectInv, [Next]_vars PROVE RoundInv'
    OBVIOUS
  <1>1. CASE BeginSecond
    BY <1>1 DEF CollectInv, TypeOK, RoundInv, BeginSecond, Calls
  <1>2. CASE Finish
    BY <1>2 DEF CollectInv, RoundInv, Finish
  <1>3. ASSUME NEW c \in Calls, DialFailed(c) \/ Timeout(c) PROVE RoundInv'
    BY <1>3, SilenceReply, RoundReturn DEF DialFailed, Timeout, Moves
  <1>4. ASSUME NEW c \in Calls, Received(c) PROVE RoundInv'
    BY <1>4, RoundReturn DEF Received, Moves
  <1>5. ASSUME NEW c \in Calls, Connected(c) PROVE RoundInv'
    <2>1. PICK g \in Hosts, k \in {1, 2} : c = <<g, k>>
      BY DEF Calls
    <2>2. QED
      BY <1>5, <2>1 DEF CollectInv, TypeOK, RoundInv, Connected, Moves, Calls
  <1>6. ASSUME NEW c \in Calls, Answer(c) \/ Hangup(c) PROVE RoundInv'
    BY <1>6 DEF CollectInv, RoundInv, Answer, Hangup, Ended
  <1>7. CASE UNCHANGED vars
    BY <1>7 DEF CollectInv, RoundInv, vars
  <1>8. QED
    BY <1>1, <1>2, <1>3, <1>4, <1>5, <1>6, <1>7 DEF Next, Call

THEOREM CollectCorrect == Spec => []CollectInv
  <1>1. Init => CollectInv
    <2> SUFFICES ASSUME Init PROVE CollectInv
      OBVIOUS
    <2>1. ASSUME NEW h \in Hosts
          PROVE  at[<<h, 1>>] = "dial" /\ at[<<h, 2>>] = "idle" /\ result[h].got = 0
      <3> DEFINE a == <<h, 1>>
                 b == <<h, 2>>
      <3>1. a \in Calls /\ a \in Hosts \X {1}
        BY DEF Calls
      <3>2. b \in Calls /\ b \notin Hosts \X {1}
        BY DEF Calls
      <3> HIDE DEF a, b
      <3>3. at[a] = "dial" /\ at[b] = "idle"
        BY <3>1, <3>2 DEF Init
      <3>4. result[h] = [error |-> "", got |-> 0]
        BY DEF Init
      <3>5. [error |-> "", got |-> 0].got = 0
        OBVIOUS
      <3>6. result[h].got = 0
        BY <3>4, <3>5, Zenon
      <3>7. QED
        BY <3>3, <3>6 DEF a, b
    <2>2. QED
      BY <2>1, TypeInit DEF Init, CollectInv, RoundInv
  <1>2. CollectInv /\ [Next]_vars => CollectInv'
    BY TypeStep, RoundStep DEF CollectInv
  <1>3. QED
    BY <1>1, <1>2, PTL DEF Spec

\* With any number of hosts, metrics are computed only from two samples: the
\* WaitGroup of round one and the skipped hosts are enough (CollectAllHosts).
THEOREM SamplesArePaired == Spec => []SampledBefore
  <1>1. CollectInv => SampledBefore
    <2> SUFFICES ASSUME CollectInv, NEW h \in Hosts, result[h].got > 0 PROVE h \in first
      BY DEF SampledBefore
    <2>1. at[<<h, 2>>] # "idle"
      <3>1. result[h] \in HostMetrics
        BY DEF CollectInv, TypeOK
      <3>2. result[h].got \in 0 .. Sections
        BY <3>1 DEF HostMetrics
      <3>3. result[h].got # 0
        BY <3>2, CollectAssumption
      <3>4. QED
        BY <3>3 DEF CollectInv, RoundInv
    <2>2. QED
      BY <2>1 DEF CollectInv, RoundInv
  <1>2. QED
    BY <1>1, CollectCorrect, PTL

\* Every variable keeps its type for any number of hosts and sections.
THEOREM CollectTypes == Spec => []TypeOK
  BY CollectCorrect, PTL DEF CollectInv

-----------------------------------------------------------------------------

\* A channel is filled once, after its command was started and when it ends.
AnswerInv ==
    \A c \in Calls : c \in running \/ at[c] \in {"idle", "dial"} => chan[c] = NoReply

LEMMA NoReplyYet == NoReply \notin Reply
  BY CollectAssumption DEF NoReply, Reply, Whole

LEMMA AnswerStep == CollectInv /\ AnswerInv /\ [Next]_vars => AnswerInv'
  <1> SUFFICES ASSUME CollectInv, AnswerInv, [Next]_vars PROVE AnswerInv'
    OBVIOUS
  <1>1. CASE BeginSecond
    <2>1. ASSUME NEW c \in Calls, at'[c] \in {"idle", "dial"} PROVE at[c] \in {"idle", "dial"}
      <3>1. PICK g \in Hosts, k \in {1, 2} : c = <<g, k>>
        BY DEF Calls
      <3>2. k = 2 => at[c] = "idle"
        BY <1>1, <3>1 DEF CollectInv, RoundInv, BeginSecond
      <3>3. k = 1 => at'[c] = at[c]
        <4>1. k = 1 => ~ (c[2] = 2)
          BY <3>1
        <4>2. c[2] = 2 \/ at'[c] = at[c]
          BY <1>1 DEF BeginSecond
        <4>3. QED
          BY <4>1, <4>2
      <3>4. QED
        BY <2>1, <3>1, <3>2, <3>3
    <2>2. QED
      BY <1>1, <2>1 DEF AnswerInv, BeginSecond
  <1>2. CASE Finish
    BY <1>2 DEF AnswerInv, Finish
  <1>3. ASSUME NEW c \in Calls, Call(c) PROVE AnswerInv'
    BY <1>3 DEF CollectInv, TypeOK, AnswerInv, Call, DialFailed, Connected, Received, Timeout, Moves
  <1>4. ASSUME NEW c \in Calls, Answer(c) \/ Hangup(c) PROVE AnswerInv'
    BY <1>4 DEF CollectInv, TypeOK, AnswerInv, Answer, Hangup, Ended
  <1>5. CASE UNCHANGED vars
    BY <1>5 DEF AnswerInv, vars
  <1>6. QED
    BY <1>1, <1>2, <1>3, <1>4, <1>5 DEF Next

\* A measured host without an error has what is in its channel, and nothing will
\* replace that; an error goes with no sections; whoever was skipped has an error;
\* and round two is over before collection is.
ToldInv ==
    \A h \in Hosts :
        /\ at[<<h, 2>>] = "done" /\ result[h].error = ""
             => <<h, 2>> \notin running /\ chan[<<h, 2>>].out = result[h].got + 1
        /\ result[h].error # "" => result[h].got = 0
        /\ phase # "first" /\ at[<<h, 2>>] = "idle" => result[h].error # ""
        /\ phase = "done" => at[<<h, 2>>] \in {"idle", "done"}

LEMMA ParsedOrTold ==
    ASSUME NEW r \in Reply
    PROVE  /\ parseHostOutput(r).error = "" => r # Silence /\ r.out = parseHostOutput(r).got + 1
           /\ parseHostOutput(r).error # "" => parseHostOutput(r).got = 0
  <1>1. r.out \in 0 .. Sections + 1
    BY ReplyRange DEF Whole
  <1>2. CASE r.out = 0
    BY <1>2 DEF parseHostOutput
  <1>3. CASE r.out # 0
    BY <1>1, <1>3, CollectAssumption DEF parseHostOutput, Silence
  <1>4. QED
    BY <1>2, <1>3

LEMMA ToldReturn ==
    ASSUME CollectInv, AnswerInv, ToldInv, NEW c \in Calls, NEW r \in Reply,
           at[c] \in {"dial", "exec"}, at' = [at EXCEPT ![c] = "done"],
           Return(c, r), phase' = phase, running' = running, chan' = chan,
           r = Silence \/ r = chan[c]
    PROVE  ToldInv'
  <1>1. PICK g \in Hosts, k \in {1, 2} : c = <<g, k>>
    BY DEF Calls
  <1>2. CASE k = 1
    <2>1. phase = "first" /\ FirstSample(g, r)
      BY <1>1, <1>2 DEF CollectInv, RoundInv, Return
    <2>2. ASSUME NEW h \in Hosts PROVE at'[<<h, 2>>] = "idle"
      <3>1. at[<<h, 2>>] = "idle" /\ <<h, 2>> # c
        BY <1>1, <1>2, <2>1 DEF CollectInv, RoundInv
      <3>2. QED
        BY <3>1 DEF CollectInv, TypeOK, Calls
    <2>3. ASSUME NEW h \in Hosts PROVE result'[h].got = 0
      BY <2>1, FirstSampleResult DEF CollectInv, RoundInv
    <2>4. QED
      BY <2>1, <2>2, <2>3 DEF ToldInv
  <1>3. CASE k = 2
    <2>1. phase = "second" /\ Measure(g, r)
      BY <1>1, <1>3 DEF CollectInv, RoundInv, ToldInv, Return, TypeOK
    <2>2. ASSUME NEW h \in Hosts, h # g
          PROVE  at'[<<h, 2>>] = at[<<h, 2>>] /\ result'[h] = result[h]
      BY <1>1, <2>1, <2>2 DEF Measure, CollectInv, TypeOK, Calls
    <2>3. at'[<<g, 2>>] = "done" /\ result'[g] = parseHostOutput(r)
      BY <1>1, <1>3, <2>1 DEF Measure, CollectInv, TypeOK, Calls
    <2>4. r # Silence => <<g, 2>> \notin running /\ chan[<<g, 2>>] = r
      BY <1>1, <1>3, NoReplyYet DEF AnswerInv
    <2>5. result'[g].error = ""
            => <<g, 2>> \notin running /\ chan[<<g, 2>>].out = result'[g].got + 1
      BY <2>3, <2>4, ParsedOrTold
    <2>6. result'[g].error # "" => result'[g].got = 0
      BY <2>3, ParsedOrTold
    <2>7. QED
      BY <2>1, <2>2, <2>3, <2>5, <2>6 DEF ToldInv
  <1>4. QED
    BY <1>1, <1>2, <1>3

LEMMA ToldStep == CollectInv /\ AnswerInv /\ ToldInv /\ [Next]_vars => ToldInv'
  <1> SUFFICES ASSUME CollectInv, AnswerInv, ToldInv, [Next]_vars PROVE ToldInv'
    OBVIOUS
  <1>1. CASE BeginSecond
    BY <1>1 DEF CollectInv, TypeOK, RoundInv, ToldInv, BeginSecond, Calls
  <1>2. CASE Finish
    BY <1>2 DEF ToldInv, Finish
  <1>3. ASSUME NEW c \in Calls, DialFailed(c) \/ Timeout(c) PROVE ToldInv'
    BY <1>3, SilenceReply, ToldReturn DEF DialFailed, Timeout, Moves
  <1>4. ASSUME NEW c \in Calls, Received(c) PROVE ToldInv'
    BY <1>4, ToldReturn DEF Received, Moves
  <1>5. ASSUME NEW c \in Calls, Connected(c) PROVE ToldInv'
    <2>1. PICK g \in Hosts, k \in {1, 2} : c = <<g, k>>
      BY DEF Calls
    <2>2. k = 2 => phase # "done"
      BY <1>5, <2>1 DEF ToldInv, Connected, Moves
    <2>3. QED
      BY <1>5, <2>1, <2>2 DEF CollectInv, TypeOK, ToldInv, Connected, Moves, Calls
  <1>6. ASSUME NEW c \in Calls, Answer(c) \/ Hangup(c) PROVE ToldInv'
    <2>1. PICK r \in Reply : Ended(c, r)
      BY <1>6, SilenceReply DEF Answer, Hangup
    <2>2. c \in running /\ running' = running \ {c} /\ chan' = [chan EXCEPT ![c] = r]
      BY <2>1 DEF Ended
    <2>3. \A h \in Hosts : <<h, 2>> \notin running
            => <<h, 2>> \notin running' /\ chan'[<<h, 2>>] = chan[<<h, 2>>]
      BY <2>2 DEF CollectInv, TypeOK, Calls
    <2>4. QED
      BY <2>1, <2>3 DEF ToldInv, Ended
  <1>7. CASE UNCHANGED vars
    BY <1>7 DEF ToldInv, vars
  <1>8. QED
    BY <1>1, <1>2, <1>3, <1>4, <1>5, <1>6, <1>7 DEF Next, Call

LEMMA ToldAlways == Spec => []ToldInv
  <1>1. Init => AnswerInv /\ ToldInv
    <2> SUFFICES ASSUME Init PROVE AnswerInv /\ ToldInv
      OBVIOUS
    <2>1. AnswerInv
      BY DEF Init, AnswerInv
    <2>2. ASSUME NEW h \in Hosts PROVE at[<<h, 2>>] = "idle" /\ result[h].error = ""
      <3> DEFINE b == <<h, 2>>
      <3>1. b \in Calls /\ b \notin Hosts \X {1}
        BY DEF Calls
      <3> HIDE DEF b
      <3>2. at[b] = "idle"
        BY <3>1 DEF Init
      <3>3. result = [g \in Hosts |-> [error |-> "", got |-> 0]]
        BY DEF Init
      <3>4. QED
        BY <3>2, <3>3 DEF b
    <2>3. QED
      BY <2>1, <2>2 DEF Init, ToldInv
  <1>2. QED
    BY <1>1, AnswerStep, ToldStep, CollectCorrect, PTL DEF Spec

\* With any number of hosts and whatever fails, breaks or comes late in either round:
\* once CollectAllHosts returned, a host without an Error has the sections its second
\* call answered with and two samples, a host with one has nothing.
THEOREM MetricsAreAnswers == Spec => []MetricsAnswered
  <1>1. CollectInv /\ ToldInv => MetricsAnswered
    BY DEF CollectInv, RoundInv, ToldInv, MetricsAnswered
  <1>2. QED
    BY <1>1, ToldAlways, CollectCorrect, PTL

-----------------------------------------------------------------------------

\* A host whose first call failed is not called again.
SkippedInv ==
    \A h \in Hosts : result[h].error = "ssh" =>
        at[<<h, 1>>] = "done" /\ at[<<h, 2>>] = "idle"

\* A call that returns is neither of a host that failed nor after the end.
LEMMA ReturnsInTime ==
    ASSUME CollectInv, ToldInv, SkippedInv, NEW c \in Calls, at[c] \in {"dial", "exec"}
    PROVE  phase # "done" /\ result[c[1]].error # "ssh"
  <1>1. PICK g \in Hosts, k \in {1, 2} : c = <<g, k>>
    BY DEF Calls
  <1>2. QED
    BY <1>1 DEF CollectInv, RoundInv, ToldInv, SkippedInv

\* It writes the result of its own host alone.
LEMMA ReturnIsLocal ==
    ASSUME CollectInv, NEW c \in Calls, NEW r \in Reply, Return(c, r),
           NEW h \in Hosts, h # c[1]
    PROVE  result'[h] = result[h]
  <1>1. c[1] \in Hosts
    BY DEF Calls
  <1>2. CASE FirstSample(c[1], r)
    BY <1>1, <1>2, FirstSampleResult DEF CollectInv
  <1>3. CASE Measure(c[1], r)
    BY <1>1, <1>3 DEF CollectInv, TypeOK, Measure
  <1>4. QED
    BY <1>2, <1>3 DEF Return

LEMMA SkippedReturn ==
    ASSUME CollectInv, ToldInv, SkippedInv, NEW c \in Calls, NEW r \in Reply,
           at[c] \in {"dial", "exec"}, at' = [at EXCEPT ![c] = "done"], Return(c, r)
    PROVE  SkippedInv'
  <1>1. PICK g \in Hosts, k \in {1, 2} : c = <<g, k>>
    BY DEF Calls
  <1>2. ASSUME NEW h \in Hosts, h # g, result'[h].error = "ssh"
        PROVE  at'[<<h, 1>>] = "done" /\ at'[<<h, 2>>] = "idle"
    <2>1. result'[h] = result[h]
      BY <1>1, <1>2, ReturnIsLocal
    <2>2. QED
      BY <1>1, <1>2, <2>1 DEF CollectInv, TypeOK, Calls, SkippedInv
  <1>3. ASSUME result'[g].error = "ssh" PROVE at'[<<g, 1>>] = "done" /\ at'[<<g, 2>>] = "idle"
    <2>1. CASE k = 1
      BY <1>1, <2>1 DEF CollectInv, RoundInv, TypeOK, Calls
    <2>2. CASE k = 2
      <3>1. result'[g] = parseHostOutput(r)
        BY <1>1, <2>2 DEF Return, Measure, CollectInv, TypeOK
      <3>2. parseHostOutput(r).error # "ssh"
        BY DEF parseHostOutput
      <3>3. QED
        BY <1>3, <3>1, <3>2
    <2>3. QED
      BY <2>1, <2>2
  <1>4. QED
    BY <1>2, <1>3 DEF SkippedInv

LEMMA SkippedStep == CollectInv /\ ToldInv /\ SkippedInv /\ [Next]_vars => SkippedInv'
  <1> SUFFICES ASSUME CollectInv, ToldInv, SkippedInv, [Next]_vars PROVE SkippedInv'
    OBVIOUS
  <1>1. CASE BeginSecond
    <2>1. ASSUME NEW h \in Hosts, result[h].error = "ssh"
          PROVE  at'[<<h, 1>>] = "done" /\ at'[<<h, 2>>] = "idle"
      BY <1>1, <2>1 DEF CollectInv, TypeOK, BeginSecond, SkippedInv, Calls
    <2>2. QED
      BY <1>1, <2>1 DEF BeginSecond, SkippedInv
  <1>2. CASE Finish
    BY <1>2 DEF SkippedInv, Finish
  <1>3. ASSUME NEW c \in Calls, DialFailed(c) \/ Timeout(c) PROVE SkippedInv'
    BY <1>3, SilenceReply, SkippedReturn DEF DialFailed, Timeout, Moves
  <1>4. ASSUME NEW c \in Calls, Received(c) PROVE SkippedInv'
    BY <1>4, SkippedReturn DEF Received, Moves
  <1>5. ASSUME NEW c \in Calls, Connected(c) PROVE SkippedInv'
    <2>1. at[c] = "dial" /\ at' = [at EXCEPT ![c] = "exec"] /\ result' = result
      BY <1>5 DEF Connected, Moves
    <2>2. result[c[1]].error # "ssh"
      BY <2>1, ReturnsInTime
    <2>3. PICK g \in Hosts, k \in {1, 2} : c = <<g, k>>
      BY DEF Calls
    <2>4. QED
      BY <2>1, <2>2, <2>3 DEF CollectInv, TypeOK, SkippedInv, Calls
  <1>6. ASSUME NEW c \in Calls, Answer(c) \/ Hangup(c) PROVE SkippedInv'
    BY <1>6 DEF SkippedInv, Answer, Hangup, Ended
  <1>7. CASE UNCHANGED vars
    BY <1>7 DEF SkippedInv, vars
  <1>8. QED
    BY <1>1, <1>2, <1>3, <1>4, <1>5, <1>6, <1>7 DEF Next, Call

\* With any number of hosts and late answers, a host keeps the SSH error of round one
\* and nothing is written once CollectAllHosts returned.
THEOREM ResultsStand == Spec => ResultsSettle
  <1> DEFINE Settled == /\ phase = "done" => UNCHANGED result
                        /\ \A h \in Hosts : result[h].error = "ssh" => result'[h] = result[h]
  <1>1. Init => SkippedInv
    <2> SUFFICES ASSUME Init, NEW h \in Hosts PROVE result[h].error = ""
      BY DEF SkippedInv
    <2>1. result = [g \in Hosts |-> [error |-> "", got |-> 0]]
      BY DEF Init
    <2>2. QED
      BY <2>1
  <1>2. CollectInv /\ ToldInv /\ SkippedInv /\ [Next]_vars => [Settled]_vars
    <2> SUFFICES ASSUME CollectInv, ToldInv, SkippedInv, Next PROVE Settled
      OBVIOUS
    <2>1. CASE BeginSecond \/ Finish
      BY <2>1 DEF BeginSecond, Finish
    <2>2. ASSUME NEW c \in Calls, NEW r \in Reply, at[c] \in {"dial", "exec"}, Return(c, r)
          PROVE  Settled
      <3>1. phase # "done" /\ result[c[1]].error # "ssh"
        BY <2>2, ReturnsInTime
      <3>2. \A h \in Hosts : h # c[1] => result'[h] = result[h]
        BY <2>2, ReturnIsLocal
      <3>3. QED
        BY <3>1, <3>2
    <2>3. ASSUME NEW c \in Calls, DialFailed(c) \/ Timeout(c) \/ Received(c) PROVE Settled
      BY <2>2, <2>3, SilenceReply DEF DialFailed, Timeout, Received, Moves
    <2>4. ASSUME NEW c \in Calls, Connected(c) \/ Answer(c) \/ Hangup(c) PROVE Settled
      BY <2>4 DEF Connected, Answer, Hangup, Ended
    <2>5. QED
      BY <2>1, <2>3, <2>4 DEF Next, Call
  <1>3. QED
    BY <1>1, <1>2, SkippedStep, ToldAlways, CollectCorrect, PTL DEF Spec, ResultsSettle
=============================================================================
