----------------------------- MODULE Proxy_proofs -----------------------------
(***************************************************************************)
(* For any number of calls, probes, local requests, notifications and       *)
(* polls: no request is dropped, answered twice or overtaken, whatever       *)
(* becomes of the daemon, and Proxy implements ReplyPromise.                *)
(***************************************************************************)
EXTENDS Proxy, FiniteSetTheorems, TLAPS

-----------------------------------------------------------------------------
(* Lemmas about lines *)

Distinct(s) == \A i, j \in 1..Len(s) : s[i] = s[j] => i = j

LEMMA SetOfSeq ==
  ASSUME NEW S, NEW s \in Seq(S)
  PROVE  ToSet(s) = {s[i] : i \in 1..Len(s)} /\ ToSet(s) \subseteq S
  BY DEF ToSet

LEMMA SetOfEmpty == ToSet(<<>>) = {}
  BY DEF ToSet

LEMMA SetOfAppend ==
  ASSUME NEW S, NEW s \in Seq(S), NEW e \in S
  PROVE  /\ ToSet(Append(s, e)) = ToSet(s) \cup {e}
         /\ Distinct(s) /\ e \notin ToSet(s) => Distinct(Append(s, e))
<1> DEFINE t == Append(s, e)
<1>1. /\ t \in Seq(S) /\ Len(t) = Len(s) + 1 /\ t[Len(t)] = e
      /\ \A i \in 1..Len(s) : t[i] = s[i]
  OBVIOUS
<1>2. ToSet(s) = {s[i] : i \in 1..Len(s)} /\ ToSet(t) = {t[i] : i \in 1..Len(t)}
  BY <1>1, SetOfSeq
<1> HIDE DEF t
<1>3. ToSet(t) = ToSet(s) \cup {e}
  BY <1>1, <1>2
<1>4. Distinct(s) /\ e \notin ToSet(s) => Distinct(t)
  BY <1>1, <1>2 DEF Distinct
<1> QED
  BY <1>3, <1>4 DEF t

LEMMA SetOfTail ==
  ASSUME NEW S, NEW s \in Seq(S), s # <<>>
  PROVE  /\ ToSet(s) = {Head(s)} \cup ToSet(Tail(s)) /\ Head(s) \in S /\ Tail(s) \in Seq(S)
         /\ Distinct(s) => Distinct(Tail(s)) /\ Head(s) \notin ToSet(Tail(s))
<1> DEFINE t == Tail(s)
<1>1. /\ t \in Seq(S) /\ Len(s) = Len(t) + 1 /\ Head(s) = s[1] /\ Len(t) \in Nat /\ Len(s) \in Nat
      /\ \A i \in 1..Len(t) : t[i] = s[i + 1]
  OBVIOUS
<1>2. ToSet(s) = {s[i] : i \in 1..Len(s)} /\ ToSet(t) = {t[i] : i \in 1..Len(t)}
  BY <1>1, SetOfSeq
<1> HIDE DEF t
<1>3. ToSet(s) = {Head(s)} \cup ToSet(t)
  <2>1. \A i \in 1..Len(s) : i = 1 \/ (i - 1 \in 1..Len(t) /\ s[i] = t[i - 1])
    BY <1>1
  <2>2. 1 \in 1..Len(s) /\ \A i \in 1..Len(t) : i + 1 \in 1..Len(s)
    BY <1>1
  <2>3. \A x \in ToSet(s) : x \in {s[1]} \cup ToSet(t)
    BY <1>2, <2>1
  <2>4. \A x \in ToSet(t) : x \in ToSet(s)
    <3> SUFFICES ASSUME NEW i \in 1..Len(t) PROVE t[i] \in ToSet(s)
      BY <1>2
    <3> QED
      BY <1>1, <1>2, <2>2
  <2> QED
    BY <1>1, <1>2, <2>2, <2>3, <2>4
<1>4. Distinct(s) => Distinct(t)
  BY <1>1 DEF Distinct
<1>5. Distinct(s) => s[1] \notin ToSet(t)
  <2> SUFFICES ASSUME Distinct(s), NEW i \in 1..Len(t), s[1] = t[i] PROVE FALSE
    BY <1>2
  <2>1. i + 1 \in 1..Len(s) /\ 1 \in 1..Len(s) /\ s[i + 1] = s[1] /\ i + 1 # 1
    BY <1>1
  <2> QED
    BY <2>1 DEF Distinct
<1>6. Head(s) \in S
  OBVIOUS
<1> QED
  BY <1>1, <1>3, <1>4, <1>5, <1>6 DEF t

LEMMA SetOfPrefix ==
  ASSUME NEW S, NEW s \in Seq(S), NEW n \in 0..Len(s)
  PROVE  /\ SubSeq(s, 1, n) \in Seq(S) /\ ToSet(SubSeq(s, 1, n)) \subseteq ToSet(s)
         /\ Distinct(s) => Distinct(SubSeq(s, 1, n))
<1> DEFINE t == SubSeq(s, 1, n)
<1>1. t \in Seq(S) /\ Len(t) = n /\ \A i \in 1..n : t[i] = s[i]
  OBVIOUS
<1>2. ToSet(s) = {s[i] : i \in 1..Len(s)} /\ ToSet(t) = {t[i] : i \in 1..Len(t)}
  BY <1>1, SetOfSeq
<1>3. \A i \in 1..n : i \in 1..Len(s)
  OBVIOUS
<1> HIDE DEF t
<1>4. ToSet(t) \subseteq ToSet(s) /\ (Distinct(s) => Distinct(t))
  BY <1>1, <1>2, <1>3 DEF Distinct
<1> QED
  BY <1>1, <1>4 DEF t

-----------------------------------------------------------------------------
(* The inductive invariant *)

(* The lines of s come in the order of h. *)
Follows(s, h) ==
  \A i, j \in 1..Len(s), k, l \in 1..Len(h) : h[k] = s[i] /\ h[l] = s[j] /\ i < j => k < l

(* The lines of s were written by the host, in the order of s. *)
InTurn(s) == ToSet(s) \subseteq ToSet(said) \ Locals /\ Follows(s, said)

(* What each status leaves empty *)
StatusInv ==
  /\ status = "connecting" => /\ inflight = {} /\ drain = <<>> /\ serving = {}
                              /\ wire = <<>> /\ working = {} /\ back = <<>>
  /\ status = "ready"      => /\ pending = <<>> /\ drain = <<>> /\ serving = {}
                              /\ link \in {"open", "dead"}
  /\ status = "failed"     => /\ pending = <<>> /\ inflight = {} /\ link = "none"
                              /\ wire = <<>> /\ working = {} /\ back = <<>>
  /\ gaveUp => link = "none"
  /\ ~gaveUp => polls <= MaxPolls
  /\ link # "open" => wire = <<>> /\ working = {}

(* Each line of the daemon's side stands in one place of it, and is tracked. *)
RemoteInv ==
  /\ ToSet(wire) \cap working = {} /\ ToSet(wire) \cap ToSet(back) = {}
  /\ working \cap ToSet(back) = {} /\ Distinct(back)
  /\ ToSet(back) \subseteq Calls \cup Probes \cup {Initialize}
  /\ (ToSet(wire) \cup working \cup ToSet(back)) \cap (Calls \cup Probes) \subseteq inflight
  /\ link = "open" => inflight \subseteq ToSet(wire) \cup working \cup ToSet(back)
  /\ inflight \subseteq ToSet(said) /\ ToSet(back) \subseteq ToSet(said)

(* Of the lines the fallback works off, the first alone may be under way. *)
DrainInv == /\ Distinct(drain) /\ ToSet(drain) \subseteq ToSet(said) \ Locals
            /\ \A i \in 2..Len(drain) : drain[i] \notin serving
            /\ serving \subseteq ToSet(said)

Waiting == (Calls \cup Probes) \cap (ToSet(pending) \cup ToSet(drain) \cup inflight \cup serving)
Settled == (ToSet(said) \cap Requests) \ Waiting

(* The replies are those of the requests that wait nowhere. *)
AnswersInv == answers = [m \in Messages |-> IF m \in Settled THEN 1 ELSE 0]

ProxyInv == /\ TypeOK /\ Distinct(said) /\ InTurn(pending) /\ InTurn(wire)
            /\ StatusInv /\ RemoteInv /\ DrainInv /\ AnswersInv

LEMMA FollowsAppend ==
  ASSUME NEW S, NEW s \in Seq(S), NEW h \in Seq(S), NEW e \in S,
         ToSet(s) \subseteq ToSet(h), e \notin ToSet(h), Follows(s, h)
  PROVE  Follows(s, Append(h, e)) /\ Follows(Append(s, e), Append(h, e))
<1> DEFINE g == Append(h, e)  t == Append(s, e)
<1>1. /\ Len(g) = Len(h) + 1 /\ g[Len(h) + 1] = e /\ \A k \in 1..Len(h) : g[k] = h[k]
      /\ Len(t) = Len(s) + 1 /\ t[Len(s) + 1] = e /\ \A k \in 1..Len(s) : t[k] = s[k]
      /\ Len(s) \in Nat /\ Len(h) \in Nat
  OBVIOUS
<1>2. ToSet(s) = {s[i] : i \in 1..Len(s)} /\ ToSet(h) = {h[i] : i \in 1..Len(h)}
  BY SetOfSeq
<1> HIDE DEF g, t
<1>3. \A i \in 1..Len(s), k \in 1..Len(g) : g[k] = s[i] => k \in 1..Len(h) /\ h[k] = s[i]
  <2> SUFFICES ASSUME NEW i \in 1..Len(s), NEW k \in 1..Len(g), g[k] = s[i]
               PROVE  k \in 1..Len(h) /\ h[k] = s[i]
    OBVIOUS
  <2>1. k \in 1..Len(h) \/ k = Len(h) + 1
    BY <1>1
  <2>2. s[i] # e
    BY <1>2
  <2> QED
    BY <1>1, <2>1, <2>2
<1>4. \A k \in 1..Len(g) : g[k] = e => k = Len(h) + 1
  BY <1>1, <1>2
<1>5. Follows(s, g)
  BY <1>3 DEF Follows
<1>6. Follows(t, g)
  <2> SUFFICES ASSUME NEW i \in 1..Len(t), NEW j \in 1..Len(t), NEW k \in 1..Len(g), NEW l \in 1..Len(g),
                      g[k] = t[i], g[l] = t[j], i < j
               PROVE  k < l
    BY DEF Follows
  <2>1. i \in 1..Len(s) /\ t[i] = s[i] /\ k \in 1..Len(h)
    BY <1>1, <1>3
  <2>2. CASE j \in 1..Len(s)
    BY <2>1, <2>2, <1>1, <1>5 DEF Follows
  <2>3. CASE j = Len(s) + 1
    BY <2>1, <2>3, <1>1, <1>4
  <2> QED
    BY <2>2, <2>3, <1>1
<1> QED
  BY <1>5, <1>6 DEF g, t

LEMMA FollowsTail ==
  ASSUME NEW S, NEW s \in Seq(S), s # <<>>, NEW h \in Seq(S), Follows(s, h)
  PROVE  Follows(Tail(s), h)
<1>1. Len(Tail(s)) = Len(s) - 1 /\ \A i \in 1..Len(Tail(s)) : Tail(s)[i] = s[i + 1] /\ i + 1 \in 1..Len(s)
  OBVIOUS
<1> QED
  BY <1>1 DEF Follows

LEMMA FollowsDistinct ==
  ASSUME NEW S, NEW s \in Seq(S), NEW h \in Seq(S), ToSet(s) \subseteq ToSet(h), Follows(s, h)
  PROVE  Distinct(s)
<1>1. ToSet(s) = {s[i] : i \in 1..Len(s)} /\ ToSet(h) = {h[i] : i \in 1..Len(h)}
  BY SetOfSeq
<1> SUFFICES ASSUME NEW i \in 1..Len(s), NEW j \in 1..Len(s), s[i] = s[j], i < j
             PROVE  FALSE
  BY DEF Distinct
<1>2. PICK k \in 1..Len(h) : h[k] = s[i]
  BY <1>1
<1> QED
  BY <1>2 DEF Follows

-----------------------------------------------------------------------------
(* Every action keeps the invariant. *)

LEMMA InitInv == Init => ProxyInv
<1> SUFFICES ASSUME Init PROVE ProxyInv
  OBVIOUS
<1>1. ToSet(<<>>) = {}
  BY SetOfEmpty
<1>2. TypeOK
  <2>1. polls \in 0..(MaxPolls + 1)
    BY ProxyAssumption DEF Init
  <2>2. answers \in [Messages -> Nat]
    BY DEF Init
  <2>3. said \in Seq(Messages) /\ back \in Seq(Requests)
    BY DEF Init
  <2> QED
    BY <2>1, <2>2, <2>3 DEF Init, TypeOK
<1>3. Distinct(said) /\ InTurn(pending) /\ InTurn(wire) /\ DrainInv /\ Distinct(back)
  BY <1>1 DEF Init, Distinct, InTurn, Follows, DrainInv
<1>4. StatusInv /\ RemoteInv
  BY <1>1, <1>3, ProxyAssumption DEF Init, StatusInv, RemoteInv
<1>5. AnswersInv
  BY <1>1 DEF Init, AnswersInv, Settled
<1> QED
  BY <1>2, <1>3, <1>4, <1>5 DEF ProxyInv

LEMMA ProbeInv == ProxyInv /\ Probe => ProxyInv'
<1> SUFFICES ASSUME ProxyInv, Probe PROVE ProxyInv'
  OBVIOUS
<1> USE DEF ProxyInv, Probe
<1>1. TypeOK'
  <2>1. CASE Reached
    BY <2>1 DEF TypeOK, Reached, reach, remote
  <2>2. CASE WrongVersion
    BY <2>2 DEF TypeOK, WrongVersion, remote
  <2>3. CASE Unreached
    <3>1. polls' \in 0..(MaxPolls + 1)
      BY <2>3, ProxyAssumption DEF TypeOK, StatusInv, Unreached, Searching
    <3> QED
      BY <2>3, <3>1 DEF TypeOK, Unreached, remote
  <2> QED
    BY <2>1, <2>2, <2>3
<1>2. (Distinct(said) /\ InTurn(pending) /\ InTurn(wire) /\ DrainInv /\ AnswersInv)'
  BY DEF Distinct, InTurn, Follows, DrainInv, AnswersInv, Settled, Waiting, remote
<1>3. StatusInv'
  BY ProxyAssumption DEF TypeOK, StatusInv, Reached, WrongVersion, Unreached, Searching, reach, remote
<1>4. RemoteInv'
  BY DEF StatusInv, RemoteInv, Distinct, Reached, WrongVersion, Unreached, Searching, reach, remote
<1> QED
  BY <1>1, <1>2, <1>3, <1>4

LEMMA AttachInv == ProxyInv /\ Attach => ProxyInv'
<1> SUFFICES ASSUME ProxyInv, Attach PROVE ProxyInv'
  OBVIOUS
<1> USE DEF ProxyInv, Attach
<1>1. wire = <<>> /\ wire' = pending /\ inflight = {} /\ working = {} /\ back = <<>> /\ gaveUp = FALSE
  BY DEF StatusInv, TypeOK
<1>2. ToSet(<<>>) = {} /\ ToSet(pending) \subseteq Messages
  BY SetOfEmpty, SetOfSeq DEF TypeOK
<1>3. TypeOK'
  BY <1>1 DEF TypeOK, Tracked, reach
<1>4. (Distinct(said) /\ InTurn(pending) /\ InTurn(wire))'
  BY <1>1, <1>2 DEF Distinct, InTurn, Follows
<1>5. StatusInv'
  BY <1>1 DEF StatusInv, reach
<1>6. RemoteInv'
  BY <1>1, <1>2 DEF RemoteInv, InTurn, Tracked, Distinct
<1>7. DrainInv' /\ AnswersInv'
  BY <1>1, <1>2 DEF DrainInv, Distinct, AnswersInv, Settled, Waiting, Tracked
<1> QED
  BY <1>3, <1>4, <1>5, <1>6, <1>7

LEMMA GoInProcessInv == ProxyInv /\ GoInProcess => ProxyInv'
<1> SUFFICES ASSUME ProxyInv, GoInProcess PROVE ProxyInv'
  OBVIOUS
<1> USE DEF ProxyInv, GoInProcess
<1>1. /\ wire = <<>> /\ inflight = {} /\ working = {} /\ back = <<>> /\ drain = <<>> /\ serving = {}
  BY DEF StatusInv, TypeOK
<1>2. ToSet(<<>>) = {} /\ ToSet(pending) \subseteq Messages
  BY SetOfEmpty, SetOfSeq DEF TypeOK
<1>3. TypeOK'
  BY <1>1 DEF TypeOK, reach, remote
<1>4. (Distinct(said) /\ InTurn(pending) /\ InTurn(wire))'
  BY <1>1, <1>2 DEF Distinct, InTurn, Follows, remote
<1>5. StatusInv'
  BY <1>1 DEF StatusInv, reach, remote
<1>6. RemoteInv'
  BY <1>1, <1>2 DEF RemoteInv, Distinct, remote
<1>7. Distinct(pending)
  BY FollowsDistinct DEF InTurn, TypeOK
<1>8. DrainInv' /\ AnswersInv'
  BY <1>1, <1>2, <1>7 DEF DrainInv, InTurn, Distinct, AnswersInv, Settled, Waiting
<1> QED
  BY <1>3, <1>4, <1>5, <1>6, <1>8

LEMMA DrainOneInv == ProxyInv /\ DrainOne => ProxyInv'
<1> SUFFICES ASSUME ProxyInv, DrainOne PROVE ProxyInv'
  OBVIOUS
<1> USE DEF ProxyInv
<1> DEFINE m == Head(drain)
<1>1. /\ status = "failed" /\ pending = <<>> /\ inflight = {} /\ wire = <<>> /\ back = <<>>
      /\ working = {} /\ link = "none"
  BY DEF StatusInv, TypeOK, DrainOne
<1>2. /\ ToSet(drain) = {m} \cup ToSet(Tail(drain)) /\ m \in Messages /\ Tail(drain) \in Seq(Messages)
      /\ Distinct(Tail(drain)) /\ m \notin ToSet(Tail(drain)) /\ drain # <<>> /\ m \notin serving
  BY SetOfTail DEF DrainInv, TypeOK, DrainOne
<1>3. ToSet(<<>>) = {}
  BY SetOfEmpty
<1>4. /\ serving' = serving \cup ({m} \cap Calls)
      /\ answers' = [n \in Messages |-> IF n \in {m} \cap Probes THEN answers[n] + 1 ELSE answers[n]]
      /\ drain' = IF m \in Calls THEN drain ELSE Tail(drain)
      /\ UNCHANGED <<said, status, polls, gaveUp, daemon, link, pending, inflight, wire, working, back, up>>
  BY DEF DrainOne, HandleLocally, reach, remote
<1>5. m \in ToSet(said) \ Locals
  BY <1>2 DEF DrainInv
<1> HIDE DEF m
<1>6. TypeOK'
  <2>1. answers' \in [Messages -> Nat]
    BY <1>4 DEF TypeOK
  <2> QED
    BY <1>2, <1>4, <2>1 DEF TypeOK
<1>7. (Distinct(said) /\ InTurn(pending) /\ InTurn(wire) /\ StatusInv /\ RemoteInv)'
  BY <1>1, <1>4 DEF Distinct, InTurn, Follows, StatusInv, RemoteInv
<1>8. DrainInv' /\ AnswersInv'
  <2>1. CASE m \in Calls
    <3>1. \A i \in 2..Len(drain) : drain[i] # m
      BY <1>2 DEF m, DrainInv, TypeOK, Distinct
    <3>2. DrainInv'
      BY <2>1, <3>1, <1>4, <1>5 DEF DrainInv, Distinct
    <3>3. Settled' = Settled
      BY <2>1, <1>2, <1>4 DEF Settled, Waiting
    <3>4. answers' = answers
      BY <2>1, <1>4, ProxyAssumption DEF TypeOK
    <3> QED
      BY <3>2, <3>3, <3>4 DEF AnswersInv
  <2>2. CASE m \notin Calls
    <3>1. serving' = serving /\ drain' = Tail(drain)
      BY <2>2, <1>4
    <3>2. \A i \in 1..Len(Tail(drain)) : Tail(drain)[i] = drain[i + 1] /\ i + 1 \in 2..Len(drain)
      BY <1>2 DEF TypeOK
    <3>3. \A i \in 2..Len(Tail(drain)) : i \in 1..Len(Tail(drain))
      OBVIOUS
    <3>4. DrainInv'
      BY <3>1, <3>2, <3>3, <1>2, <1>4 DEF DrainInv, Distinct
    <3>5. Settled' = Settled \cup ({m} \cap Probes)
      BY <3>1, <2>2, <1>1, <1>2, <1>3, <1>4, <1>5 DEF Settled, Waiting, Requests
    <3>6. m \in Probes => m \notin Settled
      BY <1>2 DEF Settled, Waiting
    <3>7. AnswersInv'
      BY <3>5, <3>6, <1>4 DEF AnswersInv
    <3> QED
      BY <3>4, <3>7
  <2> QED
    BY <2>1, <2>2
<1> QED
  BY <1>6, <1>7, <1>8

LEMMA LocalDoneInv == ASSUME NEW m \in Calls PROVE ProxyInv /\ LocalDone(m) => ProxyInv'
<1> SUFFICES ASSUME ProxyInv, LocalDone(m) PROVE ProxyInv'
  OBVIOUS
<1> USE DEF ProxyInv
<1>1. /\ status = "failed" /\ pending = <<>> /\ inflight = {} /\ wire = <<>> /\ back = <<>>
      /\ working = {} /\ link = "none"
  BY DEF StatusInv, TypeOK, LocalDone
<1>2. m \in serving /\ m \in ToSet(said) /\ m \in Messages
  BY DEF LocalDone, DrainInv, Messages, Requests
<1>3. ToSet(<<>>) = {}
  BY SetOfEmpty
<1>4. /\ serving' = serving \ {m}
      /\ answers' = [answers EXCEPT ![m] = @ + 1]
      /\ drain' = IF drain # <<>> /\ Head(drain) = m THEN Tail(drain) ELSE drain
      /\ UNCHANGED <<said, status, polls, gaveUp, daemon, link, pending, inflight, wire, working, back, up>>
  BY DEF LocalDone, reach, remote
<1>5. /\ drain' \in Seq(Messages) /\ Distinct(drain') /\ ToSet(drain') = ToSet(drain) \ {m}
      /\ \A i \in 2..Len(drain') : drain'[i] \notin serving
  <2>1. CASE drain # <<>> /\ Head(drain) = m
    <3>1. drain' = Tail(drain)
      BY <2>1, <1>4
    <3>2. \A i \in 1..Len(Tail(drain)) : Tail(drain)[i] = drain[i + 1] /\ i + 1 \in 2..Len(drain)
      BY <2>1 DEF TypeOK
    <3>3. \A i \in 2..Len(Tail(drain)) : i \in 1..Len(Tail(drain))
      OBVIOUS
    <3>4. /\ ToSet(drain) = {m} \cup ToSet(Tail(drain)) /\ Tail(drain) \in Seq(Messages)
          /\ Distinct(Tail(drain)) /\ m \notin ToSet(Tail(drain))
      BY <2>1, SetOfTail DEF TypeOK, DrainInv
    <3> QED
      BY <3>1, <3>2, <3>3, <3>4 DEF DrainInv
  <2>2. CASE ~(drain # <<>> /\ Head(drain) = m)
    <3>1. drain' = drain
      BY <2>2, <1>4
    <3>2. \A i \in 1..Len(drain) : drain[i] # m
      <4>1. \A i \in 1..Len(drain) : i = 1 \/ i \in 2..Len(drain)
        OBVIOUS
      <4>2. drain # <<>> => Head(drain) = drain[1]
        BY DEF TypeOK
      <4>3. \A i \in 1..Len(drain) : drain # <<>>
        OBVIOUS
      <4> QED
        BY <4>1, <4>2, <4>3, <2>2, <1>2 DEF DrainInv
    <3>3. m \notin ToSet(drain)
      BY <3>2, SetOfSeq DEF TypeOK
    <3> QED
      BY <3>1, <3>3 DEF DrainInv, TypeOK
  <2> QED
    BY <2>1, <2>2
<1>6. TypeOK'
  BY <1>2, <1>4, <1>5 DEF TypeOK
<1>7. (Distinct(said) /\ InTurn(pending) /\ InTurn(wire) /\ StatusInv /\ RemoteInv)'
  BY <1>1, <1>4 DEF Distinct, InTurn, Follows, StatusInv, RemoteInv
<1>8. DrainInv'
  BY <1>4, <1>5 DEF DrainInv
<1>9. Settled' = Settled \cup {m} /\ m \notin Settled
  BY <1>1, <1>2, <1>3, <1>4, <1>5 DEF Settled, Waiting, Requests
<1>10. AnswersInv'
  BY <1>2, <1>4, <1>9 DEF AnswersInv
<1> QED
  BY <1>6, <1>7, <1>8, <1>10

LEMMA ReadReplyInv == ProxyInv /\ ReadReply => ProxyInv'
<1> SUFFICES ASSUME ProxyInv, ReadReply PROVE ProxyInv'
  OBVIOUS
<1> USE DEF ProxyInv
<1> DEFINE m == Head(back)
<1>1. pending = <<>> /\ drain = <<>> /\ serving = {}
  BY DEF StatusInv, TypeOK, ReadReply
<1>2. /\ ToSet(back) = {m} \cup ToSet(Tail(back)) /\ m \in Requests /\ Tail(back) \in Seq(Requests)
      /\ Distinct(Tail(back)) /\ m \notin ToSet(Tail(back))
  BY SetOfTail DEF RemoteInv, TypeOK, ReadReply
<1>3. ToSet(<<>>) = {}
  BY SetOfEmpty
<1>4. /\ back' = Tail(back) /\ inflight' = inflight \ {m}
      /\ answers' = IF m = Initialize THEN answers ELSE [answers EXCEPT ![m] = @ + 1]
      /\ UNCHANGED <<said, status, polls, gaveUp, daemon, link, pending, drain, serving, wire, working, up>>
  BY DEF ReadReply, reach, remote
<1>5. /\ m \in ToSet(said) /\ m \in Calls \cup Probes \cup {Initialize} /\ m \in Messages
      /\ m # Initialize => m \in inflight
  BY <1>2 DEF RemoteInv, Messages
<1> HIDE DEF m
<1>6. TypeOK'
  BY <1>2, <1>4, <1>5 DEF TypeOK
<1>7. (Distinct(said) /\ InTurn(pending) /\ InTurn(wire) /\ DrainInv)'
  BY <1>4 DEF Distinct, InTurn, Follows, DrainInv
<1>8. StatusInv'
  BY <1>4 DEF StatusInv, ReadReply
<1>9. RemoteInv'
  BY <1>2, <1>4 DEF RemoteInv
<1>10. m \notin Calls \cup Probes => Settled' = Settled
  BY <1>4 DEF Settled, Waiting, TypeOK
<1>11. m # Initialize => Settled' = Settled \cup {m} /\ m \notin Settled
  BY <1>1, <1>3, <1>4, <1>5 DEF Settled, Waiting, Requests
<1>12. AnswersInv'
  <2>1. CASE m = Initialize
    BY <2>1, <1>4, <1>10, ProxyAssumption DEF AnswersInv
  <2>2. CASE m # Initialize
    BY <2>2, <1>4, <1>5, <1>11 DEF AnswersInv
  <2> QED
    BY <2>1, <2>2
<1> QED
  BY <1>6, <1>7, <1>8, <1>9, <1>12

LEMMA DaemonLostInv == ProxyInv /\ DaemonLost => ProxyInv'
<1> SUFFICES ASSUME ProxyInv, DaemonLost PROVE ProxyInv'
  OBVIOUS
<1> USE DEF ProxyInv
<1>1. pending = <<>> /\ drain = <<>> /\ serving = {} /\ wire = <<>> /\ working = {}
  BY DEF StatusInv, TypeOK, DaemonLost
<1>2. ToSet(<<>>) = {}
  BY SetOfEmpty
<1>3. /\ status' = "failed" /\ link' = "none" /\ back' = <<>> /\ inflight' = {}
      /\ serving' = inflight \cap Calls
      /\ answers' = [n \in Messages |-> IF n \in inflight \cap Probes THEN answers[n] + 1 ELSE answers[n]]
      /\ UNCHANGED <<said, polls, gaveUp, daemon, pending, drain, wire, working, up>>
  BY <1>1 DEF DaemonLost, HandleLocally, reach, remote
<1>4. TypeOK'
  <2>1. answers' \in [Messages -> Nat]
    BY <1>3 DEF TypeOK
  <2> QED
    BY <1>3, <2>1 DEF TypeOK
<1>5. (Distinct(said) /\ InTurn(pending) /\ InTurn(wire))'
  BY <1>3 DEF Distinct, InTurn, Follows
<1>6. (StatusInv /\ RemoteInv)'
  BY <1>1, <1>2, <1>3 DEF StatusInv, RemoteInv, Distinct
<1>7. DrainInv'
  BY <1>1, <1>2, <1>3 DEF DrainInv, RemoteInv
<1>8. Settled' = Settled \cup (inflight \cap Probes) /\ Settled \cap inflight = {}
  BY <1>1, <1>2, <1>3, ProxyAssumption DEF Settled, Waiting, RemoteInv, TypeOK, Requests
<1>9. AnswersInv'
  BY <1>3, <1>8 DEF AnswersInv
<1> QED
  BY <1>4, <1>5, <1>6, <1>7, <1>9

LEMMA ShutdownInv == ProxyInv /\ Shutdown => ProxyInv'
<1> SUFFICES ASSUME ProxyInv, Shutdown PROVE ProxyInv'
  OBVIOUS
<1> USE DEF ProxyInv, Shutdown, reach, remote
<1>1. (TypeOK /\ StatusInv)'
  BY DEF TypeOK, StatusInv
<1>2. (Distinct(said) /\ InTurn(pending) /\ InTurn(wire) /\ RemoteInv)'
  BY DEF Distinct, InTurn, Follows, RemoteInv
<1>3. (DrainInv /\ AnswersInv)'
  BY DEF DrainInv, Distinct, AnswersInv, Settled, Waiting
<1> QED
  BY <1>1, <1>2, <1>3

LEMMA DaemonStartsInv == ProxyInv /\ DaemonStarts => ProxyInv'
BY DEF ProxyInv, DaemonStarts, TypeOK, Distinct, InTurn, Follows, StatusInv, RemoteInv, DrainInv,
       AnswersInv, Settled, Waiting, remote

LEMMA HearInv == ProxyInv /\ Hear => ProxyInv'
<1> SUFFICES ASSUME ProxyInv, Hear PROVE ProxyInv'
  OBVIOUS
<1> USE DEF ProxyInv
<1> DEFINE m == Head(wire)
<1>1. Distinct(wire) /\ wire # <<>> /\ link = "open" /\ status = "ready"
  BY FollowsDistinct DEF InTurn, TypeOK, StatusInv, Hear
<1>2. /\ ToSet(wire) = {m} \cup ToSet(Tail(wire)) /\ m \in Messages /\ Tail(wire) \in Seq(Messages)
      /\ m \notin ToSet(Tail(wire))
  BY <1>1, SetOfTail DEF TypeOK
<1>3. m \in ToSet(said) \ Locals
  BY <1>2 DEF InTurn
<1>4. /\ wire' = Tail(wire) /\ working' = working \cup ({m} \cap Calls)
      /\ back' = IF m \in Calls \cup Notes THEN back ELSE Append(back, m)
      /\ UNCHANGED <<said, answers, status, polls, gaveUp, daemon, link, pending, inflight, drain, serving, up>>
  BY DEF Hear, reach
<1>5. InTurn(wire)'
  BY <1>1, <1>2, <1>4, FollowsTail DEF InTurn, TypeOK
<1> HIDE DEF m
<1>6. /\ back' \in Seq(Requests) /\ Distinct(back')
      /\ ToSet(back') = ToSet(back) \cup ({m} \ (Calls \cup Notes))
  <2>1. CASE m \in Calls \cup Notes
    BY <2>1, <1>4 DEF TypeOK, RemoteInv
  <2>2. CASE m \notin Calls \cup Notes
    <3>1. m \in Requests /\ m \notin ToSet(back)
      BY <2>2, <1>2 DEF Messages, RemoteInv
    <3> QED
      BY <2>2, <3>1, <1>4, SetOfAppend DEF TypeOK, RemoteInv
  <2> QED
    BY <2>1, <2>2
<1>7. TypeOK'
  BY <1>2, <1>4, <1>6 DEF TypeOK
<1>8. (Distinct(said) /\ InTurn(pending) /\ StatusInv /\ DrainInv /\ AnswersInv)'
  BY <1>1, <1>4 DEF Distinct, InTurn, Follows, StatusInv, DrainInv, AnswersInv, Settled, Waiting
<1>9. RemoteInv'
  <2>1. m \in Calls \cup Probes \cup {Initialize} \cup Notes
    BY <1>2, <1>3 DEF Messages, Requests
  <2>2. (ToSet(wire) \cap working = {} /\ ToSet(wire) \cap ToSet(back) = {} /\ working \cap ToSet(back) = {})'
    BY <1>2, <1>4, <1>6 DEF RemoteInv
  <2>3. /\ (ToSet(back) \subseteq Calls \cup Probes \cup {Initialize})'
        /\ (inflight \subseteq ToSet(said) /\ ToSet(back) \subseteq ToSet(said))'
    BY <2>1, <1>3, <1>4, <1>6 DEF RemoteInv
  <2>4. (ToSet(wire) \cup working \cup ToSet(back))' \subseteq ToSet(wire) \cup working \cup ToSet(back)
    BY <1>2, <1>4, <1>6
  <2>5. inflight \subseteq (ToSet(wire) \cup working \cup ToSet(back))'
    <3>1. inflight \subseteq Calls \cup Probes
      BY DEF TypeOK
    <3>2. Notes \cap (Calls \cup Probes) = {}
      BY ProxyAssumption
    <3> QED
      BY <3>1, <3>2, <1>1, <1>2, <1>4, <1>6 DEF RemoteInv
  <2> QED
    BY <2>2, <2>3, <2>4, <2>5, <1>4, <1>6 DEF RemoteInv
<1> QED
  BY <1>5, <1>7, <1>8, <1>9

LEMMA WorkInv == ASSUME NEW m \in Calls PROVE ProxyInv /\ Work(m) => ProxyInv'
<1> SUFFICES ASSUME ProxyInv, Work(m) PROVE ProxyInv'
  OBVIOUS
<1> USE DEF ProxyInv
<1>1. m \in working /\ link = "open" /\ status = "ready" /\ m \in Requests
  BY DEF StatusInv, TypeOK, Work, Requests
<1>2. /\ working' = working \ {m} /\ back' = Append(back, m)
      /\ UNCHANGED <<said, answers, status, polls, gaveUp, daemon, link, pending, inflight, drain, serving, wire, up>>
  BY DEF Work, reach
<1>3. /\ back' \in Seq(Requests) /\ Distinct(back') /\ ToSet(back') = ToSet(back) \cup {m}
  BY <1>1, <1>2, SetOfAppend DEF TypeOK, RemoteInv
<1>4. TypeOK'
  BY <1>2, <1>3 DEF TypeOK
<1>5. (Distinct(said) /\ InTurn(pending) /\ InTurn(wire) /\ StatusInv /\ DrainInv /\ AnswersInv)'
  BY <1>1, <1>2 DEF Distinct, InTurn, Follows, StatusInv, DrainInv, AnswersInv, Settled, Waiting
<1>6. RemoteInv'
  BY <1>1, <1>2, <1>3 DEF RemoteInv
<1> QED
  BY <1>4, <1>5, <1>6

LEMMA BreakInv == ProxyInv /\ Break => ProxyInv'
<1> SUFFICES ASSUME ProxyInv, Break PROVE ProxyInv'
  OBVIOUS
<1> USE DEF ProxyInv
<1>1. PICK n \in 0..Len(back) : back' = SubSeq(back, 1, n)
  BY DEF Break
<1>2. /\ back' \in Seq(Requests) /\ ToSet(back') \subseteq ToSet(back) /\ Distinct(back')
  BY <1>1, SetOfPrefix DEF TypeOK, RemoteInv
<1>3. /\ daemon' \in {"up", "down"} /\ wire' = <<>> /\ working' = {}
      /\ link' = IF link = "open" THEN "dead" ELSE link
      /\ UNCHANGED <<said, answers, status, polls, gaveUp, pending, inflight, drain, serving, up>>
      /\ link = "open" \/ status = "connecting"
  BY DEF Break
<1>4. ToSet(<<>>) = {}
  BY SetOfEmpty
<1>5. TypeOK'
  BY <1>2, <1>3 DEF TypeOK
<1>6. (Distinct(said) /\ InTurn(pending) /\ InTurn(wire) /\ DrainInv /\ AnswersInv)'
  BY <1>3, <1>4 DEF Distinct, InTurn, Follows, DrainInv, AnswersInv, Settled, Waiting
<1>7. StatusInv'
  <2>1. back = <<>> => back' = <<>>
    BY <1>1
  <2>2. link' # "open"
    BY <1>3
  <2> QED
    BY <1>3, <2>1, <2>2 DEF StatusInv, TypeOK
<1>8. RemoteInv'
  BY <1>2, <1>3, <1>4 DEF RemoteInv, TypeOK
<1> QED
  BY <1>5, <1>6, <1>7, <1>8

LEMMA SayInv == ASSUME NEW m \in Messages PROVE ProxyInv /\ Say(m) => ProxyInv'
<1> SUFFICES ASSUME ProxyInv, Say(m) PROVE ProxyInv'
  OBVIOUS
<1> USE DEF ProxyInv
<1> DEFINE placed == ToSet(pending) \cup ToSet(wire) \cup ToSet(drain) \cup ToSet(back)
                     \cup inflight \cup serving \cup working
<1>1. m \notin ToSet(said) /\ placed \subseteq ToSet(said)
  BY DEF Say, InTurn, RemoteInv, DrainInv, TypeOK
<1>2. /\ said' = Append(said, m) /\ said' \in Seq(Messages) /\ Distinct(said')
      /\ ToSet(said') = ToSet(said) \cup {m}
  BY <1>1, SetOfAppend DEF Say, TypeOK
<1>3. UNCHANGED <<status, polls, gaveUp, daemon, link, drain, working, back, up>>
  BY DEF Say
<1>4. InTurn(pending) /\ InTurn(wire) => /\ Follows(pending, said') /\ Follows(wire, said')
                                          /\ Follows(Append(pending, m), said')
                                          /\ Follows(Append(wire, m), said')
  BY <1>1, <1>2, FollowsAppend DEF InTurn, TypeOK
<1>5. /\ ToSet(Append(pending, m)) = ToSet(pending) \cup {m} /\ Append(pending, m) \in Seq(Messages)
      /\ ToSet(Append(wire, m)) = ToSet(wire) \cup {m} /\ Append(wire, m) \in Seq(Messages)
  BY SetOfAppend DEF TypeOK
<1>6. \A i \in 1..Len(drain) : drain[i] # m
  BY <1>1, SetOfSeq DEF TypeOK
<1>7. \A A : /\ answers' = [n \in Messages |-> IF n \in A THEN answers[n] + 1 ELSE answers[n]]
             /\ Settled' = Settled \cup A /\ A \subseteq {m}
             => AnswersInv' /\ answers' \in [Messages -> Nat]
  <2> SUFFICES ASSUME NEW A, A \subseteq {m}, Settled' = Settled \cup A,
                      answers' = [n \in Messages |-> IF n \in A THEN answers[n] + 1 ELSE answers[n]]
               PROVE  AnswersInv' /\ answers' \in [Messages -> Nat]
    OBVIOUS
  <2>1. m \notin Settled
    BY <1>1 DEF Settled
  <2> QED
    BY <2>1 DEF AnswersInv, TypeOK
<1> HIDE DEF placed
<1>8. CASE m \in Locals
  <2>1. /\ answers' = [n \in Messages |-> IF n \in {m} THEN answers[n] + 1 ELSE answers[n]]
        /\ serving' = serving /\ UNCHANGED <<inflight, wire, pending>>
    BY <1>8 DEF Say, HandleLocally
  <2>2. Settled' = Settled \cup {m}
    <3>1. m \notin Calls \cup Probes /\ m \in Requests
      BY <1>8, ProxyAssumption DEF Requests
    <3> QED
      BY <3>1, <2>1, <1>2, <1>3 DEF Settled, Waiting
  <2>3. TypeOK' /\ AnswersInv'
    BY <2>1, <2>2, <1>2, <1>3, <1>7 DEF TypeOK
  <2>4. (InTurn(pending) /\ InTurn(wire))'
    BY <2>1, <1>2, <1>4 DEF InTurn
  <2>5. (StatusInv /\ RemoteInv /\ DrainInv)'
    BY <2>1, <1>2, <1>3 DEF StatusInv, RemoteInv, DrainInv, Distinct
  <2> QED
    BY <2>3, <2>4, <2>5, <1>2
<1>9. CASE m \notin Locals /\ status = "ready"
  <2>1. /\ answers' = [n \in Messages |-> IF n \in {m} \cap {Initialize} THEN answers[n] + 1 ELSE answers[n]]
        /\ serving' = serving /\ pending' = pending
        /\ inflight' = inflight \cup ({m} \cap (Calls \cup Probes))
        /\ wire' = IF link = "open" THEN Append(wire, m) ELSE wire
    BY <1>9 DEF Say, RouteToDaemon, HandleLocally, Tracked
  <2>2. Settled' = Settled \cup ({m} \cap {Initialize})
    BY <2>1, <1>1, <1>2, <1>3, <1>9, ProxyAssumption DEF placed, Settled, Waiting, Requests, Messages
  <2>3. TypeOK' /\ AnswersInv'
    BY <2>1, <2>2, <1>2, <1>3, <1>5, <1>7 DEF TypeOK
  <2>4. (InTurn(pending) /\ InTurn(wire))'
    BY <2>1, <1>2, <1>4, <1>5, <1>9 DEF InTurn
  <2>5. (StatusInv /\ DrainInv)'
    BY <2>1, <1>2, <1>3, <1>9 DEF StatusInv, DrainInv, Distinct
  <2>6. RemoteInv'
    <3>1. ToSet(wire') = IF link = "open" THEN ToSet(wire) \cup {m} ELSE ToSet(wire)
      BY <2>1, <1>5
    <3> HIDE DEF ProxyInv
    <3>2. RemoteInv
      BY DEF ProxyInv
    <3> QED
      BY <3>1, <3>2, <2>1, <1>1, <1>2, <1>3 DEF placed, RemoteInv, Distinct
  <2> QED
    BY <2>3, <2>4, <2>5, <2>6, <1>2
<1>10. CASE m \notin Locals /\ status = "failed"
  <2>1. /\ answers' = [n \in Messages |-> IF n \in ({m} \cap Probes) \cup ({m} \cap {Initialize})
                                          THEN answers[n] + 1 ELSE answers[n]]
        /\ serving' = serving \cup ({m} \cap Calls) /\ UNCHANGED <<inflight, wire, pending>>
    BY <1>10 DEF Say, RouteToDaemon, HandleLocally
  <2>2. Settled' = Settled \cup (({m} \cap Probes) \cup ({m} \cap {Initialize}))
    <3>1. Waiting' = Waiting \cup ({m} \cap Calls)
      BY <2>1, <1>3 DEF Waiting
    <3>2. m \notin Waiting
      BY <1>1 DEF placed, Waiting
    <3>3. m \in Requests => m \in Calls \cup Probes \cup {Initialize}
      BY <1>10 DEF Requests
    <3>4. Calls \cap (Probes \cup {Initialize}) = {} /\ Probes \cup {Initialize} \subseteq Requests
      BY ProxyAssumption DEF Requests
    <3> QED
      BY <3>1, <3>2, <3>3, <3>4, <1>1, <1>2 DEF Settled
  <2>3. TypeOK' /\ AnswersInv'
    BY <2>1, <2>2, <1>2, <1>3, <1>7 DEF TypeOK
  <2>4. (InTurn(pending) /\ InTurn(wire))'
    BY <2>1, <1>2, <1>4 DEF InTurn
  <2>5. (StatusInv /\ RemoteInv)'
    BY <2>1, <1>2, <1>3, <1>10 DEF StatusInv, RemoteInv, Distinct
  <2>6. DrainInv'
    <3>1. \A i \in 2..Len(drain) : i \in 1..Len(drain)
      OBVIOUS
    <3> QED
      BY <2>1, <3>1, <1>2, <1>3, <1>6 DEF DrainInv, Distinct
  <2> QED
    BY <2>3, <2>4, <2>5, <2>6, <1>2
<1>11. CASE m \notin Locals /\ status = "connecting"
  <2>1. /\ answers' = [n \in Messages |-> IF n \in {m} \cap {Initialize} THEN answers[n] + 1 ELSE answers[n]]
        /\ serving' = serving /\ pending' = Append(pending, m) /\ UNCHANGED <<inflight, wire>>
    BY <1>11 DEF Say, RouteToDaemon, HandleLocally
  <2>2. Settled' = Settled \cup ({m} \cap {Initialize})
    <3>1. Waiting' = Waiting \cup ({m} \cap (Calls \cup Probes))
      BY <2>1, <1>3, <1>5 DEF Waiting
    <3>2. m \notin Waiting
      BY <1>1 DEF placed, Waiting
    <3>3. m \in Requests => m \in Calls \cup Probes \cup {Initialize}
      BY <1>11 DEF Requests
    <3>4. Initialize \notin Calls \cup Probes /\ Initialize \in Requests
      BY ProxyAssumption DEF Requests
    <3> QED
      BY <3>1, <3>2, <3>3, <3>4, <1>1, <1>2 DEF Settled
  <2>3. TypeOK' /\ AnswersInv'
    BY <2>1, <2>2, <1>2, <1>3, <1>5, <1>7 DEF TypeOK
  <2>4. (InTurn(pending) /\ InTurn(wire))'
    BY <2>1, <1>2, <1>4, <1>5, <1>11 DEF InTurn
  <2>5. (StatusInv /\ RemoteInv)'
    BY <2>1, <1>2, <1>3, <1>11 DEF StatusInv, RemoteInv, Distinct
  <2>6. DrainInv'
    BY <2>1, <1>2, <1>3 DEF DrainInv, Distinct
  <2> QED
    BY <2>3, <2>4, <2>5, <2>6, <1>2
<1> QED
  BY <1>8, <1>9, <1>10, <1>11 DEF TypeOK

LEMMA NextInv == ProxyInv /\ [Next]_vars => ProxyInv'
<1> SUFFICES ASSUME ProxyInv, [Next]_vars PROVE ProxyInv'
  OBVIOUS
<1>1. CASE Own
  BY <1>1, ProbeInv, AttachInv, GoInProcessInv, DrainOneInv, ReadReplyInv, DaemonLostInv, LocalDoneInv DEF Own
<1>2. CASE Session
  BY <1>2, HearInv, WorkInv DEF Session
<1>3. CASE DaemonStarts \/ Break \/ Shutdown
  BY <1>3, DaemonStartsInv, BreakInv, ShutdownInv
<1>4. CASE \E m \in Messages : Say(m)
  BY <1>4, SayInv
<1>5. CASE UNCHANGED vars
  <2> USE <1>5 DEF ProxyInv, vars
  <2>1. (TypeOK /\ StatusInv)'
    BY DEF TypeOK, StatusInv
  <2>2. (Distinct(said) /\ InTurn(pending) /\ InTurn(wire) /\ RemoteInv)'
    BY DEF Distinct, InTurn, Follows, RemoteInv
  <2>3. (DrainInv /\ AnswersInv)'
    BY DEF DrainInv, Distinct, AnswersInv, Settled, Waiting
  <2> QED
    BY <2>1, <2>2, <2>3
<1> QED
  BY <1>1, <1>2, <1>3, <1>4, <1>5 DEF Next

(* The invariant holds of every state of the proxy. *)
THEOREM ProxyInvariant == Spec => []ProxyInv
<1>1. Init => ProxyInv
  BY InitInv
<1>2. ProxyInv /\ [Next]_vars => ProxyInv'
  BY NextInv
<1> QED
  BY <1>1, <1>2, PTL DEF Spec

-----------------------------------------------------------------------------
(* What the invariant says of requests *)

LEMMA InvOneReply == ProxyInv => OneReplyEach
BY DEF ProxyInv, AnswersInv, Settled, OneReplyEach

LEMMA InvUnanswered == ProxyInv => Unanswered = Waiting
<1> SUFFICES ASSUME ProxyInv PROVE Unanswered = Waiting
  OBVIOUS
<1>1. Waiting \subseteq ToSet(said)
  BY DEF ProxyInv, Waiting, InTurn, DrainInv, RemoteInv
<1>2. Calls \cup Probes \subseteq Requests \cap Messages
  BY DEF Requests, Messages
<1> QED
  BY <1>1, <1>2 DEF ProxyInv, AnswersInv, Settled, Unanswered, Waiting

LEMMA InvPlaces ==
  ASSUME ProxyInv, NEW m \in Calls \cup Probes
  PROVE  Cardinality(Places(m)) = IF m \in Waiting THEN 1 ELSE 0
<1> USE DEF ProxyInv
<1>1. ToSet(<<>>) = {}
  BY SetOfEmpty
<1>2. /\ "pending" \in Places(m) <=> m \in ToSet(pending)
      /\ "drain" \in Places(m) <=> m \in ToSet(drain) /\ ~(drain[1] = m /\ m \in serving)
      /\ "inflight" \in Places(m) <=> m \in inflight
      /\ "serving" \in Places(m) <=> m \in serving
      /\ Places(m) \subseteq {"pending", "drain", "inflight", "serving"}
  BY DEF Places
<1>3. m \in ToSet(drain) /\ m \in serving => drain[1] = m
  <2> SUFFICES ASSUME m \in ToSet(drain), m \in serving PROVE drain[1] = m
    OBVIOUS
  <2>1. PICK i \in 1..Len(drain) : drain[i] = m
    BY SetOfSeq DEF TypeOK
  <2>2. i = 1 \/ i \in 2..Len(drain)
    OBVIOUS
  <2> QED
    BY <2>1, <2>2 DEF DrainInv
<1>4. CASE m \notin Waiting
  <2>1. Places(m) = {}
    BY <1>2, <1>4 DEF Waiting
  <2> QED
    BY <2>1, <1>4, FS_EmptySet
<1>5. CASE m \in Waiting
  <2>1. \E p : Places(m) = {p}
    <3>1. CASE status = "connecting"
      <4>1. Places(m) = {"pending"}
        BY <3>1, <1>1, <1>2, <1>5 DEF StatusInv, Waiting
      <4> QED
        BY <4>1
    <3>2. CASE status = "ready"
      <4>1. Places(m) = {"inflight"}
        BY <3>2, <1>1, <1>2, <1>5 DEF StatusInv, Waiting
      <4> QED
        BY <4>1
    <3>3. CASE status = "failed" /\ m \in serving
      <4>1. Places(m) = {"serving"}
        BY <3>3, <1>1, <1>2, <1>3 DEF StatusInv
      <4> QED
        BY <4>1
    <3>4. CASE status = "failed" /\ m \notin serving
      <4>1. Places(m) = {"drain"}
        BY <3>4, <1>1, <1>2, <1>5 DEF StatusInv, Waiting
      <4> QED
        BY <4>1
    <3> QED
      BY <3>1, <3>2, <3>3, <3>4 DEF TypeOK
  <2> QED
    BY <2>1, <1>5, FS_Singleton
<1> QED
  BY <1>4, <1>5

LEMMA InvLines == ProxyInv => LinesInOrder
<1> SUFFICES ASSUME ProxyInv PROVE LinesInOrder
  OBVIOUS
<1> USE DEF ProxyInv
<1> DEFINE lines == wire \o pending
           Said(m) == CHOOSE k \in DOMAIN said : said[k] = m
<1>1. lines \in Seq(Messages) /\ InTurn(lines)
  <2>1. wire = <<>> \/ pending = <<>>
    BY DEF StatusInv, TypeOK
  <2>2. wire \in Seq(Messages) /\ pending \in Seq(Messages)
    BY DEF TypeOK
  <2>3. lines = pending \/ lines = wire
    BY <2>1, <2>2
  <2> QED
    BY <2>2, <2>3
<1>2. DOMAIN lines = 1..Len(lines) /\ DOMAIN said = 1..Len(said)
  BY <1>1 DEF TypeOK
<1> HIDE DEF lines
<1>3. \A i \in 1..Len(lines) : \E k \in 1..Len(said) : said[k] = lines[i]
  <2>1. ToSet(lines) = {lines[i] : i \in 1..Len(lines)} /\ ToSet(said) = {said[k] : k \in 1..Len(said)}
    BY <1>1, SetOfSeq DEF TypeOK
  <2> QED
    BY <2>1, <1>1 DEF InTurn
<1>4. \A i \in 1..Len(lines) : Said(lines[i]) \in 1..Len(said) /\ said[Said(lines[i])] = lines[i]
  BY <1>2, <1>3
<1>5. \A i, j \in 1..Len(lines) : i < j => Said(lines[i]) < Said(lines[j])
  <2> HIDE DEF Said
  <2> QED
    BY <1>1, <1>4 DEF InTurn, Follows
<1> QED
  BY <1>2, <1>5 DEF lines, LinesInOrder

(* A request that has no reply yet is in one place, whichever process the   *)
(* call is in and whatever became of the daemon; an answered one is nowhere, *)
(* none is answered twice, and lines stay in the order of the host.           *)
THEOREM Accounted == Spec => []RequestsAccounted
<1>1. ProxyInv => EveryRequestInHand
  BY InvUnanswered, InvPlaces DEF EveryRequestInHand, ProxyInv, RemoteInv
<1>2. ProxyInv => RequestsAccounted
  BY <1>1, InvOneReply, InvLines DEF RequestsAccounted, ProxyInv
<1> QED
  BY <1>2, ProxyInvariant, PTL

-----------------------------------------------------------------------------
(* Proxy implements ReplyPromise *)

LEMMA RepliesGrow ==
  ASSUME TypeOK, Next, NEW m \in Messages
  PROVE  answers'[m] >= answers[m]
<1> USE DEF TypeOK
<1>1. answers[m] \in Nat
  OBVIOUS
<1>2. ASSUME NEW A, NEW B, HandleLocally(A, B) PROVE answers'[m] >= answers[m]
  BY <1>1, <1>2 DEF HandleLocally
<1>3. CASE Own
  <2>1. CASE Probe \/ Attach \/ GoInProcess
    BY <2>1, <1>1 DEF Probe, Attach, GoInProcess
  <2>2. CASE DrainOne
    BY <2>2, <1>2 DEF DrainOne
  <2>3. CASE ReadReply
    BY <2>3, <1>1 DEF ReadReply
  <2>4. CASE DaemonLost
    BY <2>4, <1>2 DEF DaemonLost
  <2>5. CASE \E n \in Calls : LocalDone(n)
    BY <2>5, <1>1 DEF LocalDone
  <2> QED
    BY <1>3, <2>1, <2>2, <2>3, <2>4, <2>5 DEF Own
<1>4. CASE Session \/ DaemonStarts \/ Break \/ Shutdown
  BY <1>4, <1>1 DEF Session, Hear, Work, DaemonStarts, Break, Shutdown
<1>5. CASE \E n \in Messages : Say(n)
  BY <1>5, <1>2 DEF Say, RouteToDaemon
<1> QED
  BY <1>3, <1>4, <1>5 DEF Next

LEMMA HostSpeaks ==
  ASSUME TypeOK, Next
  PROVE  said' = said \/ \E m \in Messages : said' = Append(said, m)
BY DEF Next, Own, Session, Probe, Attach, GoInProcess, DrainOne, ReadReply, DaemonLost, LocalDone,
       Hear, Work, DaemonStarts, Break, Shutdown, Say

LEMMA PromiseStep == ProxyInv /\ ProxyInv' /\ [Next]_vars => [Promise!Next]_(Promise!vars)
<1> SUFFICES ASSUME ProxyInv, ProxyInv', Next PROVE Promise!Next
  BY DEF vars, Promise!vars
<1>1. UNCHANGED ToSet(said) \/ \E m \in Messages : ToSet(said)' = ToSet(said) \cup {m}
  <2>1. TypeOK /\ said \in Seq(Messages)
    BY DEF ProxyInv, TypeOK
  <2>2. said' = said \/ \E m \in Messages : said' = Append(said, m)
    BY <2>1, HostSpeaks
  <2>3. \A m \in Messages : ToSet(Append(said, m)) = ToSet(said) \cup {m}
    BY <2>1, SetOfAppend
  <2> QED
    BY <2>2, <2>3
<1>2. answers' \in [Messages -> 0..1]
  BY DEF ProxyInv, AnswersInv
<1>3. ASSUME NEW m \in Messages
      PROVE  answers'[m] = answers[m]
             \/ (m \in ToSet(said)' \cap Requests /\ answers[m] = 0 /\ answers'[m] = 1)
  <2>1. answers'[m] >= answers[m]
    BY RepliesGrow DEF ProxyInv
  <2> QED
    BY <2>1 DEF ProxyInv, AnswersInv, Settled
<1> QED
  BY <1>1, <1>2, <1>3 DEF Promise!Next, Promise!Ask, Promise!Reply

(* Of the daemon, the fallback and the switch between them the host sees no *)
(* more than requests, each with one reply.                                  *)
THEOREM Implements == Spec => KeepsReplyPromise
<1>1. Init => Promise!Init
  BY SetOfEmpty DEF Init, Promise!Init
<1>2. ProxyInv /\ ProxyInv' /\ [Next]_vars => [Promise!Next]_(Promise!vars)
  BY PromiseStep
<1> QED
  BY <1>1, <1>2, ProxyInvariant, PTL DEF Spec, KeepsReplyPromise, Promise!Spec
=============================================================================
