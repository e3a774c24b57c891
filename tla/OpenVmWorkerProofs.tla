------------------------- MODULE OpenVmWorkerProofs -------------------------
(***************************************************************************)
(* Proofs about the OpenVM worker and its client, for any number of calls  *)
(* and configs, any number of tries and any number of failures.            *)
(***************************************************************************)
EXTENDS OpenVmWorker, TLAPS

Place == {"idle", "ensure", "connect", "refused", "broken", "unavailable", "reply"}
           \cup InWorker

CallRecord ==
  [at : Place, left : 0..Retries, config : Config, aggregated : BOOLEAN,
   met : 0..Retries, alone : BOOLEAN]

(* Whatever a finished request has used is cached.                         *)
Warm ==
  \A k \in Config :
    /\ <<k, "app">> \in settled => k \in app_pk
    /\ <<k, "agg">> \in settled => k \in agg_pk

(* A verification that no other call has met.                              *)
Lone(c) == Active(c) /\ call[c].alone /\ parent = "hierophant"

(* It has paid for every try but the current one with a hiccup, and for    *)
(* the current one as soon as that is bound to fail.                       *)
Owed(c) ==
  IF call[c].at = "broken" \/ (child = "exited" /\ call[c].at \in {"connect", "refused"})
  THEN Retries - call[c].left + 1
  ELSE Retries - call[c].left

LoneInv ==
  \A c \in Call : Lone(c) =>
    /\ \A d \in Call \ {c} : ~Active(d)
    /\ call[c].at = "unavailable" => call[c].met >= Retries
    /\ call[c].at \notin {"reply", "unavailable"} =>
         call[c].left >= 1 /\ call[c].met >= Owed(c)

Calls == [Call -> CallRecord]

-----------------------------------------------------------------------------
(* What the steps on the table of calls do to it.                          *)

(* Fields of a call are assigned one by one.                               *)
LEMMA FieldType ==
  ASSUME NEW r \in CallRecord, NEW at \in Place, NEW n \in 0..Retries
  PROVE  /\ [r EXCEPT !.at = at] \in CallRecord
         /\ [r EXCEPT !.met = n] \in CallRecord
         /\ [r EXCEPT !.left = n] \in CallRecord
         /\ [r EXCEPT !.at = at, !.left = n] \in CallRecord
  <1>1. [r EXCEPT !.at = at] \in CallRecord
    BY DEF CallRecord
  <1>2. [r EXCEPT !.met = n] \in CallRecord
    BY DEF CallRecord
  <1>3. [r EXCEPT !.left = n] \in CallRecord
    BY DEF CallRecord
  <1>4. [r EXCEPT !.at = at, !.left = n] \in CallRecord
    BY DEF CallRecord
  <1> QED
    BY <1>1, <1>2, <1>3, <1>4

(* A call that moves keeps everything else.                                *)
LEMMA MoveType ==
  ASSUME NEW calls \in Calls, NEW c \in Call, NEW at \in Place
  PROVE  LET next == [calls EXCEPT ![c].at = at] IN
         /\ next \in Calls
         /\ next[c] = [calls[c] EXCEPT !.at = at]
         /\ \A d \in Call \ {c} : next[d] = calls[d]
  BY DEF Calls, CallRecord

LEMMA GotoType ==
  ASSUME call \in Calls, NEW c \in Call, NEW at \in Place, Goto(c, at)
  PROVE  /\ call' \in Calls
         /\ call'[c].at = at
         /\ call'[c].left = call[c].left /\ call'[c].config = call[c].config
         /\ call'[c].aggregated = call[c].aggregated
         /\ call'[c].met = call[c].met /\ call'[c].alone = call[c].alone
         /\ \A d \in Call \ {c} : call'[d] = call[d]
  BY MoveType DEF Goto, Calls, CallRecord

(* A call begins, and the others that run are not alone any more.          *)
LEMMA BeginType ==
  ASSUME call \in Calls, NEW c \in Call, NEW k \in Config, NEW aggregated \in BOOLEAN,
         begin(c, k, aggregated)
  PROVE  /\ call' \in Calls
         /\ call[c].at = "idle"
         /\ call'[c].at = "ensure" /\ call'[c].met = 0
         /\ call'[c].left = (IF parent = "hierophant" THEN Retries ELSE 1)
         /\ call'[c].alone <=> \A d \in Call : call[d].at = "idle"
         /\ \A d \in Call \ {c} :
              /\ call'[d].at = call[d].at /\ call'[d].config = call[d].config
              /\ call'[d].aggregated = call[d].aggregated
              /\ call[d].at # "idle" => ~call'[d].alone
              /\ call[d].at = "idle" => call'[d] = call[d]
  <1> DEFINE others == {d \in Call : Active(d)}
             new == [at |-> "ensure", left |-> IF parent = "hierophant" THEN Retries ELSE 1,
                     config |-> k, aggregated |-> aggregated, met |-> 0,
                     alone |-> others = {}]
             row(d) == IF d = c THEN new
                       ELSE IF d \in others THEN [call[d] EXCEPT !.alone = FALSE] ELSE call[d]
  <1>1. call' = [d \in Call |-> row(d)] /\ call[c].at = "idle"
    BY DEF begin, Active
  <1>2. new \in CallRecord
    <2>1. /\ "ensure" \in Place /\ 0 \in 0..Retries
          /\ (IF parent = "hierophant" THEN Retries ELSE 1) \in 0..Retries
      BY WorkerAssumption DEF Place
    <2>2. (others = {}) \in BOOLEAN
      OBVIOUS
    <2> QED
      BY <2>1, <2>2 DEF CallRecord
  <1>3. ASSUME NEW d \in Call PROVE row(d) \in CallRecord
    <2>1. call[d] \in CallRecord
      BY DEF Calls
    <2>2. [call[d] EXCEPT !.alone = FALSE] \in CallRecord
      BY <2>1 DEF CallRecord
    <2> QED
      BY <1>2, <2>1, <2>2
  <1>4. call' \in Calls
    BY <1>1, <1>3 DEF Calls
  <1>5. call'[c] = new
    BY <1>1
  <1>6. (others = {}) <=> \A d \in Call : call[d].at = "idle"
    BY DEF Active
  <1>7. ASSUME NEW d \in Call \ {c}
        PROVE  /\ call'[d].at = call[d].at /\ call'[d].config = call[d].config
               /\ call'[d].aggregated = call[d].aggregated
               /\ call[d].at # "idle" => ~call'[d].alone
               /\ call[d].at = "idle" => call'[d] = call[d]
    <2>1. call[d] \in CallRecord /\ call'[d] = row(d)
      BY <1>1 DEF Calls
    <2> QED
      BY <2>1 DEF CallRecord, Active
  <1> QED
    BY <1>1, <1>4, <1>5, <1>6, <1>7

(* A hiccup changes nothing but what it counts.                            *)
LEMMA HiccupType ==
  ASSUME NEW calls \in Calls, NEW who
  PROVE  LET next == Hiccup(calls, who) IN
         /\ next \in Calls
         /\ \A d \in Call :
              /\ next[d].at = calls[d].at /\ next[d].left = calls[d].left
              /\ next[d].config = calls[d].config
              /\ next[d].aggregated = calls[d].aggregated
              /\ next[d].alone = calls[d].alone
              /\ next[d].met >= calls[d].met
              /\ d \in who /\ calls[d].at # "idle" =>
                   next[d].met >= calls[d].met + 1 \/ next[d].met = Retries
  <1> DEFINE next == Hiccup(calls, who)
  <1>1. \A d \in Call :
          next[d] = IF d \in who /\ calls[d].at # "idle" /\ calls[d].met < Retries
                    THEN [calls[d] EXCEPT !.met = @ + 1] ELSE calls[d]
    BY DEF Hiccup
  <1>2. ASSUME NEW d \in Call PROVE next[d] \in CallRecord
    <2>1. calls[d] \in CallRecord
      BY DEF Calls
    <2>2. calls[d].met < Retries => calls[d].met + 1 \in 0..Retries
      BY <2>1, WorkerAssumption DEF CallRecord
    <2>3. "idle" \in Place
      BY DEF Place
    <2>4. CASE d \in who /\ calls[d].at # "idle" /\ calls[d].met < Retries
      BY <1>1, <2>1, <2>2, <2>3, <2>4, FieldType
    <2>5. CASE ~(d \in who /\ calls[d].at # "idle" /\ calls[d].met < Retries)
      BY <1>1, <2>1, <2>5
    <2> QED
      BY <2>4, <2>5
  <1>3. next \in Calls
    BY <1>2 DEF Calls, Hiccup
  <1> QED
    BY <1>1, <1>3, WorkerAssumption DEF Calls, CallRecord

(* A failed try starts another one, or is the last.                        *)
LEMMA FailedType ==
  ASSUME NEW calls \in Calls, NEW c \in Call
  PROVE  LET next == Failed(calls, c) IN
         /\ next \in Calls
         /\ \A d \in Call \ {c} : next[d] = calls[d]
         /\ next[c].config = calls[c].config
         /\ next[c].aggregated = calls[c].aggregated
         /\ next[c].met = calls[c].met /\ next[c].alone = calls[c].alone
         /\ \/ /\ calls[c].left > 1
               /\ next[c].at = "ensure" /\ next[c].left = calls[c].left - 1
            \/ /\ calls[c].left \in {0, 1}
               /\ next[c].at = "unavailable" /\ next[c].left = 0
  <1> DEFINE next == Failed(calls, c)
  <1>1. CASE calls[c].left > 1
    <2>1. next = [calls EXCEPT ![c] = [calls[c] EXCEPT !.at = "ensure", !.left = @ - 1]]
      BY <1>1 DEF Failed, Calls, CallRecord
    <2>a. calls[c] \in CallRecord /\ "ensure" \in Place
      BY DEF Calls, Place
    <2>b. calls[c].left - 1 \in 0..Retries
      BY <1>1, <2>a, WorkerAssumption DEF CallRecord
    <2>2. [calls[c] EXCEPT !.at = "ensure", !.left = @ - 1] \in CallRecord
      BY <2>a, <2>b, FieldType
    <2> QED
      BY <1>1, <2>1, <2>2 DEF Calls, CallRecord
  <1>2. CASE ~(calls[c].left > 1)
    <2>1. next = [calls EXCEPT ![c] = [calls[c] EXCEPT !.at = "unavailable", !.left = 0]]
      BY <1>2 DEF Failed, Calls, CallRecord
    <2>a. calls[c] \in CallRecord /\ "unavailable" \in Place /\ 0 \in 0..Retries
      BY WorkerAssumption DEF Calls, Place
    <2>2. [calls[c] EXCEPT !.at = "unavailable", !.left = 0] \in CallRecord
      BY <2>a, FieldType
    <2>3. calls[c].left \in {0, 1}
      BY <1>2, WorkerAssumption DEF Calls, CallRecord
    <2> QED
      BY <2>1, <2>2, <2>3 DEF Calls, CallRecord
  <1> QED
    BY <1>1, <1>2

(* The calls that were in the worker are broken, the others are left.      *)
LEMMA SeveredType ==
  ASSUME NEW calls \in Calls
  PROVE  LET next == Severed(calls) IN
         /\ next \in Calls
         /\ \A d \in Call :
              /\ next[d].at = IF calls[d].at \in InWorker THEN "broken" ELSE calls[d].at
              /\ next[d].left = calls[d].left /\ next[d].met = calls[d].met
              /\ next[d].alone = calls[d].alone
              /\ calls[d].at \notin InWorker => next[d] = calls[d]
              /\ next[d].at \notin InWorker
  <1> DEFINE next == Severed(calls)
  <1>1. \A d \in Call :
          next[d] = IF calls[d].at \in InWorker
                    THEN [calls[d] EXCEPT !.at = "broken"] ELSE calls[d]
    BY DEF Severed
  <1>2. \A d \in Call : next[d] \in CallRecord
    BY <1>1 DEF Calls, CallRecord, Place
  <1>3. next \in Calls
    BY <1>2 DEF Calls, Severed
  <1>4. ASSUME NEW d \in Call
        PROVE  /\ next[d].at = IF calls[d].at \in InWorker THEN "broken" ELSE calls[d].at
               /\ next[d].left = calls[d].left /\ next[d].met = calls[d].met
               /\ next[d].alone = calls[d].alone
    <2>1. calls[d] \in CallRecord
      BY DEF Calls
    <2> HIDE DEF next
    <2> QED
      BY <1>1, <2>1 DEF CallRecord
  <1> QED
    BY <1>1, <1>3, <1>4 DEF InWorker

-----------------------------------------------------------------------------
(* Types.                                                                  *)

(* A worker that does not listen serves nobody; a request that looks for   *)
(* its app key has found its aggregation key.                              *)
Served ==
  /\ \A c \in Call : call[c].at \in InWorker => child = "bound"
  /\ \A c \in Call : call[c].at = "app" => call[c].config \in agg_pk

LEMMA TypeParts ==
  TypeOK <=>
    /\ parent \in {"hierophant", "contemplant"}
    /\ child \in {"none", "starting", "bound", "exited"}
    /\ call \in Calls
    /\ app_pk \subseteq Config /\ agg_pk \subseteq Config
    /\ settled \subseteq Config \X {"app", "agg"}
    /\ Served
  BY DEF TypeOK, Calls, CallRecord, Place, Served

LEMMA IdleType == Idle \in CallRecord
  <1>1. (CHOOSE k \in Config : TRUE) \in Config
    BY WorkerAssumption
  <1>2. 0 \in 0..Retries /\ "idle" \in Place
    BY WorkerAssumption DEF Place
  <1> QED
    BY <1>1, <1>2 DEF Idle, CallRecord

LEMMA InitType == Init => TypeOK
  <1> SUFFICES ASSUME Init PROVE TypeOK
    OBVIOUS
  <1>1. call \in Calls
    BY IdleType DEF Init, Calls
  <1>2. Served
    BY DEF Init, Served, Idle, InWorker
  <1> QED
    BY <1>1, <1>2, TypeParts DEF Init

(* Every action keeps the types.                                           *)
LEMMA StepType == TypeOK /\ [Next]_vars => TypeOK'
  <1> SUFFICES ASSUME TypeOK, [Next]_vars PROVE TypeOK'
    OBVIOUS
  <1>a. /\ parent \in {"hierophant", "contemplant"}
        /\ child \in {"none", "starting", "bound", "exited"}
        /\ call \in Calls
        /\ app_pk \subseteq Config /\ agg_pk \subseteq Config
        /\ settled \subseteq Config \X {"app", "agg"}
        /\ Served
    BY TypeParts
  <1>b. TypeOK' <=>
          /\ parent' \in {"hierophant", "contemplant"}
          /\ child' \in {"none", "starting", "bound", "exited"}
          /\ call' \in Calls
          /\ app_pk' \subseteq Config /\ agg_pk' \subseteq Config
          /\ settled' \subseteq Config \X {"app", "agg"}
          /\ Served'
    BY TypeParts DEF TypeOK, Calls, CallRecord, Place, Served
  <1>c. /\ {"idle", "ensure", "connect", "refused", "broken", "unavailable", "reply"}
             \subseteq Place
        /\ InWorker \subseteq Place
    BY DEF Place
  <1>1. ASSUME NEW c \in Call, NEW k \in Config, NEW aggregated \in BOOLEAN,
               begin(c, k, aggregated)
        PROVE  TypeOK'
    BY <1>1, <1>a, <1>b, BeginType DEF begin, Served, InWorker, caches
  <1>2. ASSUME NEW c \in Call, ensure_running(c) PROVE TypeOK'
    <2>1. call' \in Calls /\ call'[c].at = "connect"
            /\ \A d \in Call \ {c} : call'[d] = call[d]
      BY <1>2, <1>a, <1>c, GotoType DEF ensure_running
    <2> QED
      BY <1>2, <1>a, <1>b, <2>1 DEF ensure_running, Spawned, Served, InWorker, caches
  <1>3. ASSUME NEW c \in Call, spawn_fails(c) PROVE TypeOK'
    <2> DEFINE met == Hiccup(call, Call)
    <2>1. met \in Calls /\ \A d \in Call : met[d].at = call[d].at
                                       /\ met[d].config = call[d].config
      BY <1>a, HiccupType
    <2>2. /\ call' \in Calls
          /\ call'[c].at \in {"ensure", "unavailable"}
          /\ \A d \in Call \ {c} : call'[d] = met[d]
      BY <1>3, <2>1, FailedType DEF spawn_fails
    <2>3. Served'
      BY <1>3, <1>a, <2>1, <2>2 DEF spawn_fails, Served, InWorker, caches
    <2> QED
      BY <1>3, <1>a, <1>b, <2>2, <2>3 DEF spawn_fails, caches
  <1>4. ASSUME NEW c \in Call, connect(c) PROVE TypeOK'
    <2>1. /\ call' \in Calls
          /\ call'[c].at = "look" /\ call'[c].config = call[c].config
          /\ \A d \in Call \ {c} : call'[d] = call[d]
      BY <1>4, <1>a, <1>c, GotoType DEF connect, InWorker
    <2> QED
      BY <1>4, <1>a, <1>b, <2>1 DEF connect, Served, InWorker, caches
  <1>5. ASSUME NEW c \in Call, refused(c) PROVE TypeOK'
    <2>1. /\ call' \in Calls
          /\ call'[c].at = "refused" /\ call'[c].config = call[c].config
          /\ \A d \in Call \ {c} : call'[d] = call[d]
      BY <1>5, <1>a, <1>c, GotoType DEF refused, InWorker
    <2> QED
      BY <1>5, <1>a, <1>b, <2>1 DEF refused, Served, InWorker, caches
  <1>6. ASSUME NEW c \in Call, check_child(c) PROVE TypeOK'
    <2>1. /\ call' \in Calls
          /\ call'[c].at \in {"ensure", "unavailable", "connect"}
          /\ \A d \in Call \ {c} : call'[d] = call[d]
      BY <1>6, <1>a, <1>c, GotoType, FailedType DEF check_child
    <2> QED
      BY <1>6, <1>a, <1>b, <2>1 DEF check_child, Served, InWorker, caches
  <1>7. ASSUME NEW c \in Call, grace_over(c) PROVE TypeOK'
    <2> DEFINE met == Hiccup(call, IF child = "starting" THEN Call ELSE {c})
    <2>1. met \in Calls /\ \A d \in Call : met[d].at = call[d].at
                                       /\ met[d].config = call[d].config
      BY <1>a, HiccupType
    <2>2. call' = [met EXCEPT ![c].at = "broken"]
      BY <1>7 DEF grace_over
    <2> HIDE DEF met
    <2>3. /\ call' \in Calls /\ call'[c].at = "broken"
          /\ \A d \in Call \ {c} : call'[d] = met[d]
      BY <1>c, <2>1, <2>2, MoveType DEF Calls, CallRecord
    <2>a. \A d \in Call : call[d].at \notin InWorker
      BY <1>7, <1>a DEF grace_over, Served
    <2>b. \A d \in Call : call'[d].at \notin InWorker
      BY <2>a, <2>1, <2>3 DEF InWorker
    <2>4. Served'
      BY <2>b DEF Served, InWorker
    <2> QED
      BY <1>7, <1>a, <1>b, <2>3, <2>4 DEF grace_over, caches
  <1>8. ASSUME NEW c \in Call, mark_dead(c) PROVE TypeOK'
    <2> DEFINE cut == IF child = "bound" THEN Severed(call) ELSE call
    <2>1. cut \in Calls /\ \A d \in Call : cut[d].at \notin InWorker
      BY <1>a, SeveredType DEF Served
    <2>2. /\ call' \in Calls
          /\ call'[c].at \in {"ensure", "unavailable"}
          /\ \A d \in Call \ {c} : call'[d] = cut[d]
      BY <1>8, <2>1, FailedType DEF mark_dead
    <2>3. \A d \in Call : call'[d].at \notin InWorker
      BY <2>1, <2>2 DEF InWorker
    <2> QED
      BY <1>8, <1>a, <1>b, <2>2, <2>3 DEF mark_dead, Served, InWorker, caches
  <1>9. ASSUME NEW c \in Call, return(c) PROVE TypeOK'
    <2>1. call' \in Calls
      BY <1>9, <1>a, IdleType DEF return, Calls
    <2>2. call'[c].at = "idle" /\ \A d \in Call \ {c} : call'[d] = call[d]
      BY <1>9, <1>a DEF return, Calls, Idle
    <2> QED
      BY <1>9, <1>a, <1>b, <2>1, <2>2 DEF return, Served, InWorker, caches
  <1>10. CASE worker_binds
    BY <1>10, <1>a, <1>b DEF worker_binds, Served, caches
  <1>11. CASE worker_exits
    <2> DEFINE met == Hiccup(call, Call)
    <2>1. met \in Calls
      BY <1>a, HiccupType
    <2>2. call' \in Calls /\ \A d \in Call : call'[d].at \notin InWorker
      BY <1>11, <2>1, SeveredType DEF worker_exits
    <2> QED
      BY <1>11, <1>a, <1>b, <2>2 DEF worker_exits, Served, InWorker, caches
  <1>12. ASSUME NEW c \in Call, reject(c) PROVE TypeOK'
    <2>1. /\ call' \in Calls
          /\ call'[c].at = "reply" /\ call'[c].config = call[c].config
          /\ \A d \in Call \ {c} : call'[d] = call[d]
      BY <1>12, <1>a, <1>c, GotoType DEF reject, InWorker
    <2> QED
      BY <1>12, <1>a, <1>b, <2>1 DEF reject, Served, InWorker, caches, Serves
  <1>13. ASSUME NEW c \in Call, build_sdk(c) PROVE TypeOK'
    <2>1. /\ call' \in Calls
          /\ call'[c].at = "work" /\ call'[c].config = call[c].config
          /\ \A d \in Call \ {c} : call'[d] = call[d]
      BY <1>13, <1>a, <1>c, GotoType DEF build_sdk, InWorker
    <2> QED
      BY <1>13, <1>a, <1>b, <2>1 DEF build_sdk, Served, InWorker, caches, Serves
  <1>14. ASSUME NEW c \in Call, ensure_agg_pk(c) PROVE TypeOK'
    <2>1. /\ call' \in Calls
          /\ call'[c].at \in {"app", "work"} /\ call'[c].config = call[c].config
          /\ \A d \in Call \ {c} : call'[d] = call[d]
      BY <1>14, <1>a, <1>c, GotoType DEF ensure_agg_pk, InWorker
    <2>2. call'[c].at = "app" => call[c].config \in agg_pk'
      BY <1>14, <1>a, <1>c, GotoType DEF ensure_agg_pk, InWorker, caches
    <2>3. call[c].config \in Config
      BY <1>a DEF Calls, CallRecord
    <2>4. /\ agg_pk \subseteq agg_pk' /\ agg_pk' \subseteq Config
          /\ app_pk' \subseteq Config /\ settled' = settled
      BY <1>14, <1>a, <2>3 DEF ensure_agg_pk, caches
    <2>5. child' = "bound" /\ parent' = parent
      BY <1>14, <1>a DEF ensure_agg_pk, Serves, Served, InWorker
    <2>6. Served'
      BY <1>a, <2>1, <2>2, <2>4, <2>5 DEF Served
    <2> QED
      BY <1>a, <1>b, <2>1, <2>4, <2>5, <2>6
  <1>15. ASSUME NEW c \in Call, ensure_app_pk(c) PROVE TypeOK'
    <2>1. /\ call' \in Calls
          /\ call'[c].at = "work" /\ call'[c].config = call[c].config
          /\ \A d \in Call \ {c} : call'[d] = call[d]
      BY <1>15, <1>a, <1>c, GotoType DEF ensure_app_pk, InWorker
    <2> QED
      BY <1>15, <1>a, <1>b, <2>1 DEF ensure_app_pk, Served, InWorker, caches, Serves
  <1>16. ASSUME NEW c \in Call, finish(c) PROVE TypeOK'
    <2>1. /\ call' \in Calls
          /\ call'[c].at = "reply" /\ call'[c].config = call[c].config
          /\ \A d \in Call \ {c} : call'[d] = call[d]
      BY <1>16, <1>a, <1>c, GotoType DEF finish, InWorker
    <2>2. call[c].config \in Config /\ child' = "bound"
      BY <1>16, <1>a DEF finish, Serves, Served, InWorker, Calls, CallRecord
    <2>3. /\ agg_pk \subseteq agg_pk' /\ agg_pk' \subseteq Config /\ app_pk' \subseteq Config
      BY <1>16, <1>a, <2>2 DEF finish
    <2>4. settled' \subseteq Config \X {"app", "agg"}
      BY <1>16, <1>a, <2>2 DEF finish, Uses
    <2>5. Served'
      BY <1>a, <2>1, <2>2, <2>3 DEF Served
    <2> QED
      BY <1>16, <1>a, <1>b, <2>1, <2>2, <2>3, <2>4, <2>5 DEF finish, Serves
  <1>17. ASSUME NEW c \in Call, fail(c) PROVE TypeOK'
    <2>1. /\ call' \in Calls
          /\ call'[c].at = "reply" /\ call'[c].config = call[c].config
          /\ \A d \in Call \ {c} : call'[d] = call[d]
      BY <1>17, <1>a, <1>c, GotoType DEF fail, InWorker
    <2> QED
      BY <1>17, <1>a, <1>b, <2>1 DEF fail, Served, InWorker, caches, Serves
  <1>18. ASSUME NEW c \in Call, panic(c) PROVE TypeOK'
    <2> DEFINE met == Hiccup(call, {c})
               to == IF parent = "hierophant" THEN "broken" ELSE "hung"
    <2>1. met \in Calls /\ \A d \in Call : met[d].at = call[d].at
                                       /\ met[d].config = call[d].config
      BY <1>a, HiccupType
    <2>2. to \in Place /\ to # "app"
      BY DEF Place, InWorker
    <2>3. call' = [met EXCEPT ![c].at = to]
      BY <1>18 DEF panic
    <2> HIDE DEF met, to
    <2>4. /\ call' \in Calls /\ call'[c].at # "app"
          /\ \A d \in Call \ {c} : call'[d] = met[d]
      BY <2>1, <2>2, <2>3, MoveType DEF Calls, CallRecord
    <2>5. child' = "bound" /\ agg_pk' = agg_pk
      BY <1>18, <1>a DEF panic, Served, Serves, InWorker, caches
    <2>6. Served'
      BY <1>a, <2>1, <2>4, <2>5 DEF Served
    <2> QED
      BY <1>18, <1>a, <1>b, <2>4, <2>5, <2>6 DEF panic, Serves, caches
  <1>19. CASE UNCHANGED vars
    BY <1>19, <1>a, <1>b DEF vars, caches, Served
  <1> QED
    BY <1>1, <1>2, <1>3, <1>4, <1>5, <1>6, <1>7, <1>8, <1>9, <1>10, <1>11, <1>12,
       <1>13, <1>14, <1>15, <1>16, <1>17, <1>18, <1>19
    DEF Next, call_blocking, handle_request

(* THEOREM: the types hold throughout (WorkerClient, handle_conn): a       *)
(* request is served only by a child that listens.                         *)
THEOREM TypeInvariant == Spec => []TypeOK
  BY InitType, StepType, PTL DEF Spec

-----------------------------------------------------------------------------
(* The key caches of the worker (prove.rs, verify.rs).                     *)

(* Caches grow until the child is replaced, and are emptied together.      *)
LEMMA StepWarm == TypeOK /\ Warm /\ [Next]_vars => Warm'
  <1> SUFFICES ASSUME TypeOK, Warm, [Next]_vars PROVE Warm'
    OBVIOUS
  <1>1. CASE Spawned
    BY <1>1 DEF Spawned, Warm
  <1>2. CASE settled' = settled /\ app_pk \subseteq app_pk' /\ agg_pk \subseteq agg_pk'
    BY <1>2 DEF Warm
  <1>3. ASSUME NEW c \in Call, finish(c) PROVE Warm'
    <2> SUFFICES ASSUME NEW k \in Config
                 PROVE  /\ <<k, "app">> \in settled' => k \in app_pk'
                        /\ <<k, "agg">> \in settled' => k \in agg_pk'
      BY DEF Warm
    <2>1. <<k, "app">> \in Uses(c) => k = call[c].config /\ parent = "hierophant"
      BY DEF Uses
    <2>2. <<k, "agg">> \in Uses(c) => k = call[c].config /\ call[c].aggregated
      BY DEF Uses
    <2>3. /\ settled' = settled \cup Uses(c)
          /\ app_pk' = IF parent = "hierophant" THEN app_pk \cup {call[c].config} ELSE app_pk
          /\ agg_pk' = IF call[c].aggregated THEN agg_pk \cup {call[c].config} ELSE agg_pk
      BY <1>3 DEF finish
    <2> QED
      BY <2>1, <2>2, <2>3 DEF Warm
  <1>4. ASSUME NEW c \in Call, call_blocking(c)
        PROVE  Spawned \/ (settled' = settled /\ app_pk \subseteq app_pk' /\ agg_pk \subseteq agg_pk')
    BY <1>4 DEF call_blocking, ensure_running, spawn_fails, connect, refused, check_child,
                grace_over, mark_dead, caches
  <1>5. ASSUME NEW c \in Call, handle_request(c), ~finish(c)
        PROVE  settled' = settled /\ app_pk \subseteq app_pk' /\ agg_pk \subseteq agg_pk'
    BY <1>5 DEF handle_request, reject, build_sdk, ensure_agg_pk, ensure_app_pk, fail, panic,
                caches
  <1>6. ASSUME \/ \E c \in Call, k \in Config, aggregated \in BOOLEAN : begin(c, k, aggregated)
               \/ \E c \in Call : return(c)
               \/ worker_binds \/ worker_exits \/ UNCHANGED vars
        PROVE  settled' = settled /\ app_pk \subseteq app_pk' /\ agg_pk \subseteq agg_pk'
    BY <1>6 DEF begin, return, worker_binds, worker_exits, vars, caches
  <1> QED
    BY <1>1, <1>2, <1>3, <1>4, <1>5, <1>6 DEF Next

(* A request goes from its look at the caches to work in two ways.         *)
LEMMA WarmLook ==
  ASSUME TypeOK, Warm, Next, NEW c \in Call,
         call[c].at = "look", call'[c].at = "work"
  PROVE  IF call[c].aggregated
         THEN <<call[c].config, "agg">> \notin settled
         ELSE <<call[c].config, "app">> \in settled => call[c].config \in app_pk
  <1>1. call \in Calls /\ call[c].config \in Config
    BY TypeParts DEF Calls, CallRecord
  <1>2. CASE ~call[c].aggregated
    BY <1>1, <1>2 DEF Warm
  <1>3. CASE call[c].aggregated /\ call[c].config \notin agg_pk
    BY <1>1, <1>3 DEF Warm
  <1>4. ASSUME call[c].aggregated, call[c].config \in agg_pk PROVE FALSE
    <2>c. /\ {"idle", "ensure", "connect", "refused", "broken", "unavailable", "reply"}
               \subseteq Place
          /\ InWorker \subseteq Place
      BY DEF Place
    <2>1. ASSUME NEW d \in Call, handle_request(d), d # c PROVE FALSE
      <3>1. ASSUME panic(d) PROVE FALSE
        <4> DEFINE met == Hiccup(call, {d})
        <4>1. met \in Calls /\ met[c].at = "look"
          BY <1>1, HiccupType
        <4>2. call' = [met EXCEPT ![d].at = IF parent = "hierophant" THEN "broken" ELSE "hung"]
          BY <3>1 DEF panic
        <4> HIDE DEF met
        <4> QED
          BY <2>1, <4>1, <4>2 DEF Calls
      <3>2. ASSUME ~panic(d) PROVE FALSE
        <4>1. \E at \in Place : Goto(d, at)
          BY <2>1, <3>2, <2>c DEF handle_request, reject, build_sdk, ensure_agg_pk,
             ensure_app_pk, finish, fail, InWorker
        <4> QED
          BY <1>1, <2>1, <4>1, GotoType
      <3> QED
        BY <3>1, <3>2
    <2>2. ASSUME handle_request(c) PROVE FALSE
      <3>1. \/ Goto(c, "reply") \/ Goto(c, "app")
        BY <2>2, <1>4 DEF handle_request, reject, build_sdk, ensure_agg_pk, ensure_app_pk,
           finish, fail, panic
      <3> QED
        BY <1>1, <2>c, <3>1, GotoType DEF InWorker
    <2>3. ASSUME NEW d \in Call, call_blocking(d) PROVE FALSE
      <3>1. d # c
        BY <2>3 DEF call_blocking, ensure_running, spawn_fails, connect, refused, check_child,
           grace_over, mark_dead
      <3>2. CASE ensure_running(d) \/ connect(d) \/ refused(d)
        BY <1>1, <2>c, <3>1, <3>2, GotoType
        DEF ensure_running, connect, refused, InWorker
      <3>3. CASE spawn_fails(d)
        <4>1. Hiccup(call, Call) \in Calls /\ Hiccup(call, Call)[c].at = "look"
          BY <1>1, HiccupType
        <4> QED
          BY <3>1, <3>3, <4>1, FailedType DEF spawn_fails
      <3>4. CASE check_child(d)
        BY <1>1, <2>c, <3>1, <3>4, GotoType, FailedType DEF check_child
      <3>5. CASE grace_over(d)
        BY <1>1, <3>5, TypeParts DEF grace_over, Served, InWorker
      <3>6. CASE mark_dead(d)
        <4> DEFINE cut == IF child = "bound" THEN Severed(call) ELSE call
        <4>1. cut \in Calls /\ cut[c].at # "work"
          BY <1>1, SeveredType DEF InWorker
        <4> QED
          BY <3>1, <3>6, <4>1, FailedType DEF mark_dead
      <3> QED
        BY <2>3, <3>2, <3>3, <3>4, <3>5, <3>6 DEF call_blocking
    <2>4. ASSUME \/ \E d \in Call, k \in Config, aggregated \in BOOLEAN : begin(d, k, aggregated)
                 \/ \E d \in Call : return(d)
                 \/ worker_binds \/ worker_exits
          PROVE  FALSE
      <3>1. ASSUME NEW d \in Call, NEW k \in Config, NEW aggregated \in BOOLEAN,
                   begin(d, k, aggregated)
            PROVE  FALSE
        BY <1>1, <3>1, BeginType
      <3>2. ASSUME NEW d \in Call, return(d) PROVE FALSE
        BY <1>1, <3>2 DEF return, Calls, Idle
      <3>3. CASE worker_binds
        BY <3>3 DEF worker_binds
      <3>4. CASE worker_exits
        <4>1. Hiccup(call, Call) \in Calls
          BY <1>1, HiccupType
        <4> QED
          BY <3>4, <4>1, SeveredType DEF worker_exits, InWorker
      <3> QED
        BY <2>4, <3>1, <3>2, <3>3, <3>4
    <2> QED
      BY <2>1, <2>2, <2>3, <2>4 DEF Next
  <1> QED
    BY <1>2, <1>3, <1>4

(* THEOREM: a key that some finished request of the child has used is      *)
(* never generated again by that child, however requests of one config     *)
(* interleave (ensure_agg_pk and store_agg_pk of prove.rs, build_sdk and   *)
(* store_app_pk of verify.rs).                                             *)
THEOREM WarmKeys == Spec => KeysStayWarm
  <1>1. Init => TypeOK /\ Warm
    BY InitType DEF Init, Warm
  <1>2. TypeOK /\ Warm /\ [Next]_vars => (TypeOK /\ Warm)'
    BY StepType, StepWarm
  <1>3. TypeOK /\ Warm /\ [Next]_vars =>
          [\A c \in Call :
             call[c].at = "look" /\ call'[c].at = "work" =>
               IF call[c].aggregated
               THEN <<call[c].config, "agg">> \notin settled
               ELSE <<call[c].config, "app">> \in settled => call[c].config \in app_pk]_vars
    BY WarmLook
  <1> QED
    BY <1>1, <1>2, <1>3, PTL DEF Spec, KeysStayWarm

-----------------------------------------------------------------------------
(* The Hierophant's tries (verify_openvm_proof of verify.rs).              *)

(* What a lone verification has paid.                                      *)
Paid(c) ==
  /\ call[c].at = "unavailable" => call[c].met >= Retries
  /\ call[c].at \notin {"reply", "unavailable"} =>
       call[c].left >= 1 /\ call[c].met >= Owed(c)

(* A step of one active call matters to the lone call only if it is that.  *)
LEMMA LoneActor ==
  ASSUME LoneInv, NEW c \in Call, Active(c), parent' = parent,
         call'[c].alone = call[c].alone,
         \A d \in Call \ {c} : /\ call'[d].alone = call[d].alone
                               /\ call'[d].at = "idle" <=> call[d].at = "idle",
         Lone(c) => Paid(c)'
  PROVE  LoneInv'
  <1> SUFFICES ASSUME NEW d \in Call, Lone(d)'
               PROVE  (\A e \in Call \ {d} : ~Active(e))' /\ Paid(d)'
    BY DEF LoneInv, Paid
  <1>1. Lone(d)
    BY DEF Lone, Active
  <1>2. d = c
    BY <1>1 DEF LoneInv
  <1> QED
    BY <1>1, <1>2 DEF LoneInv, Active

(* Each action keeps LoneInv.                                              *)
LEMMA StepLone == TypeOK /\ LoneInv /\ [Next]_vars => LoneInv'
  <1> SUFFICES ASSUME TypeOK, LoneInv, [Next]_vars PROVE LoneInv'
    OBVIOUS
  <1>a. /\ parent \in {"hierophant", "contemplant"}
        /\ child \in {"none", "starting", "bound", "exited"}
        /\ call \in Calls /\ Served
    BY TypeParts
  <1>c. /\ {"idle", "ensure", "connect", "refused", "broken", "unavailable", "reply"}
             \subseteq Place
        /\ InWorker \subseteq Place
    BY DEF Place
  <1>1. ASSUME NEW c \in Call, NEW k \in Config, NEW aggregated \in BOOLEAN,
               begin(c, k, aggregated)
        PROVE  LoneInv'
    <2> SUFFICES ASSUME NEW d \in Call, Lone(d)'
                 PROVE  (\A e \in Call \ {d} : ~Active(e))' /\ Paid(d)'
      BY DEF LoneInv, Paid
    <2>1. d = c /\ \A e \in Call : call[e].at = "idle"
      BY <1>1, <1>a, BeginType DEF Lone, Active
    <2>2. (\A e \in Call \ {d} : ~Active(e))'
      BY <1>1, <1>a, <2>1, BeginType DEF Active
    <2>3. parent = "hierophant"
      BY <1>1 DEF begin, Lone
    <2>4. Paid(d)'
      BY <1>1, <1>a, <2>1, <2>3, BeginType, WorkerAssumption DEF Paid, Owed
    <2> QED
      BY <2>2, <2>4
  <1>2. ASSUME NEW c \in Call, ensure_running(c) PROVE LoneInv'
    <2>1. /\ call' \in Calls /\ call'[c].at = "connect"
          /\ call'[c].left = call[c].left /\ call'[c].met = call[c].met
          /\ call'[c].alone = call[c].alone
          /\ \A d \in Call \ {c} : call'[d] = call[d]
      BY <1>2, <1>a, <1>c, GotoType DEF ensure_running, InWorker
    <2>2. Active(c) /\ call[c].at \notin {"reply", "unavailable"} /\ parent' = parent
      BY <1>2 DEF ensure_running, Active, Spawned
    <2>3. Lone(c) => Paid(c)'
      BY <1>2, <1>a, <2>1, <2>2, WorkerAssumption
      DEF ensure_running, LoneInv, Paid, Owed, Calls, CallRecord, Served, InWorker, Spawned
    <2> QED
      BY <2>1, <2>2, <2>3, LoneActor
  <1>3. ASSUME NEW c \in Call, spawn_fails(c) PROVE LoneInv'
    <2> DEFINE met == Hiccup(call, Call)
    <2>1. /\ met \in Calls
          /\ \A d \in Call : met[d].at = call[d].at /\ met[d].alone = call[d].alone
          /\ met[c].left = call[c].left
          /\ met[c].met >= call[c].met + 1 \/ met[c].met = Retries
      BY <1>3, <1>a, HiccupType DEF spawn_fails
    <2>2. call' = Failed(met, c) /\ call[c].at = "ensure" /\ parent' = parent
      BY <1>3 DEF spawn_fails
    <2> HIDE DEF met
    <2>f. /\ \/ call[c].left > 1 /\ call'[c].at = "ensure" /\ call'[c].left = call[c].left - 1
             \/ call[c].left \in {0, 1} /\ call'[c].at = "unavailable"
          /\ call'[c].met = met[c].met
      BY <2>1, <2>2, FailedType
    <2>g. call[c].left \in 0..Retries /\ met[c].met \in 0..Retries /\ call[c].met \in 0..Retries
      BY <1>a, <2>1 DEF Calls, CallRecord
    <2>3. Lone(c) => Paid(c)'
      BY <2>1, <2>2, <2>f, <2>g, WorkerAssumption DEF LoneInv, Lone, Paid, Owed
    <2>4. /\ call'[c].alone = call[c].alone
          /\ \A d \in Call \ {c} : call'[d] = met[d]
      BY <2>1, <2>2, FailedType
    <2> QED
      BY <2>1, <2>2, <2>3, <2>4, LoneActor DEF Active
  <1>4. ASSUME NEW c \in Call, connect(c) PROVE LoneInv'
    <2>1. /\ call' \in Calls /\ call'[c].at = "look"
          /\ call'[c].left = call[c].left /\ call'[c].met = call[c].met
          /\ call'[c].alone = call[c].alone
          /\ \A d \in Call \ {c} : call'[d] = call[d]
      BY <1>4, <1>a, <1>c, GotoType DEF connect, InWorker
    <2>2. Active(c) /\ call[c].at \notin {"reply", "unavailable"} /\ parent' = parent
      BY <1>4 DEF connect, Active
    <2>3. Lone(c) => Paid(c)'
      BY <1>4, <1>a, <2>1, <2>2, WorkerAssumption
      DEF connect, LoneInv, Paid, Owed, Calls, CallRecord, Served, InWorker
    <2> QED
      BY <2>1, <2>2, <2>3, LoneActor
  <1>5. ASSUME NEW c \in Call, refused(c) PROVE LoneInv'
    <2>1. /\ call' \in Calls /\ call'[c].at = "refused"
          /\ call'[c].left = call[c].left /\ call'[c].met = call[c].met
          /\ call'[c].alone = call[c].alone
          /\ \A d \in Call \ {c} : call'[d] = call[d]
      BY <1>5, <1>a, <1>c, GotoType DEF refused, InWorker
    <2>2. Active(c) /\ call[c].at \notin {"reply", "unavailable"} /\ parent' = parent
      BY <1>5 DEF refused, Active
    <2>3. Lone(c) => Paid(c)'
      BY <1>5, <1>a, <2>1, <2>2, WorkerAssumption
      DEF refused, LoneInv, Paid, Owed, Calls, CallRecord, Served, InWorker
    <2> QED
      BY <2>1, <2>2, <2>3, LoneActor
  <1>6. ASSUME NEW c \in Call, check_child(c) PROVE LoneInv'
    <2>1. CASE child = "exited"
      <3>1. call' = Failed(call, c) /\ call[c].at = "refused" /\ parent' = parent
        BY <1>6, <2>1 DEF check_child
      <3>f. /\ \/ call[c].left > 1 /\ call'[c].at = "ensure" /\ call'[c].left = call[c].left - 1
               \/ call[c].left \in {0, 1} /\ call'[c].at = "unavailable"
            /\ call'[c].met = call[c].met
        BY <1>a, <3>1, FailedType
      <3>g. call[c].left \in 0..Retries /\ call[c].met \in 0..Retries /\ child' = "none"
        BY <1>6, <1>a, <2>1 DEF Calls, CallRecord, check_child
      <3>2. Lone(c) => Paid(c)'
        BY <2>1, <3>1, <3>f, <3>g, WorkerAssumption DEF LoneInv, Lone, Paid, Owed
      <3>3. /\ call'[c].alone = call[c].alone
            /\ \A d \in Call \ {c} : call'[d] = call[d]
        BY <1>a, <3>1, FailedType
      <3> QED
        BY <3>1, <3>2, <3>3, LoneActor DEF Active
    <2>2. CASE child # "exited"
      <3>1. /\ call'[c].at = "connect"
            /\ call'[c].left = call[c].left /\ call'[c].met = call[c].met
            /\ call'[c].alone = call[c].alone
            /\ \A d \in Call \ {c} : call'[d] = call[d]
        BY <1>6, <1>a, <1>c, <2>2, GotoType DEF check_child
      <3>2. call[c].at = "refused" /\ parent' = parent /\ child' = child
        BY <1>6, <2>2 DEF check_child
      <3>3. Lone(c) => Paid(c)'
        BY <2>2, <3>1, <3>2 DEF LoneInv, Lone, Paid, Owed
      <3> QED
        BY <3>1, <3>2, <3>3, LoneActor DEF Active
    <2> QED
      BY <2>1, <2>2
  <1>7. ASSUME NEW c \in Call, grace_over(c) PROVE LoneInv'
    <2> DEFINE met == Hiccup(call, IF child = "starting" THEN Call ELSE {c})
    <2>1. /\ met \in Calls
          /\ \A d \in Call : met[d].at = call[d].at /\ met[d].alone = call[d].alone
          /\ met[c].left = call[c].left
          /\ met[c].met >= call[c].met + 1 \/ met[c].met = Retries
      BY <1>7, <1>a, HiccupType DEF grace_over
    <2>2. call' = [met EXCEPT ![c].at = "broken"] /\ call[c].at = "connect" /\ parent' = parent
      BY <1>7 DEF grace_over
    <2> HIDE DEF met
    <2>3. /\ call'[c] = [met[c] EXCEPT !.at = "broken"]
          /\ \A d \in Call \ {c} : call'[d] = met[d]
      BY <1>c, <2>1, <2>2, MoveType
    <2>4. /\ call'[c].at = "broken" /\ call'[c].left = met[c].left
          /\ call'[c].met = met[c].met /\ call'[c].alone = met[c].alone
      BY <2>1, <2>3 DEF Calls, CallRecord
    <2>5. Lone(c) => Paid(c)'
      BY <1>a, <2>1, <2>2, <2>4, WorkerAssumption
      DEF LoneInv, Lone, Paid, Owed, Calls, CallRecord
    <2> QED
      BY <2>1, <2>2, <2>3, <2>4, <2>5, LoneActor DEF Active
  <1>8. ASSUME NEW c \in Call, mark_dead(c) PROVE LoneInv'
    <2> DEFINE cut == IF child = "bound" THEN Severed(call) ELSE call
    <2>1. /\ cut \in Calls
          /\ \A d \in Call : /\ cut[d].at = "idle" <=> call[d].at = "idle"
                             /\ cut[d].alone = call[d].alone
          /\ cut[c] = call[c]
      BY <1>8, <1>a, SeveredType DEF mark_dead, InWorker
    <2>2. call' = Failed(cut, c) /\ call[c].at = "broken" /\ parent' = parent /\ child' = "none"
      BY <1>8 DEF mark_dead
    <2> HIDE DEF cut
    <2>f. /\ \/ call[c].left > 1 /\ call'[c].at = "ensure" /\ call'[c].left = call[c].left - 1
             \/ call[c].left \in {0, 1} /\ call'[c].at = "unavailable"
          /\ call'[c].met = cut[c].met
      BY <2>1, <2>2, FailedType
    <2>g. call[c].left \in 0..Retries /\ cut[c].met \in 0..Retries /\ call[c].met \in 0..Retries
      BY <1>a, <2>1 DEF Calls, CallRecord
    <2>3. Lone(c) => Paid(c)'
      BY <2>1, <2>2, <2>f, <2>g, WorkerAssumption DEF LoneInv, Lone, Paid, Owed
    <2>4. /\ call'[c].alone = call[c].alone
          /\ \A d \in Call \ {c} : call'[d] = cut[d]
      BY <2>1, <2>2, FailedType
    <2> QED
      BY <2>1, <2>2, <2>3, <2>4, LoneActor DEF Active
  <1>9. ASSUME NEW c \in Call, return(c) PROVE LoneInv'
    <2>1. /\ call'[c].at = "idle" /\ \A d \in Call \ {c} : call'[d] = call[d]
          /\ Active(c) /\ parent' = parent
      BY <1>9, <1>a DEF return, Calls, Idle, Active
    <2> SUFFICES ASSUME NEW d \in Call, Lone(d)' PROVE FALSE
      BY DEF LoneInv
    <2>2. d # c /\ Lone(d)
      BY <2>1 DEF Lone, Active
    <2> QED
      BY <2>1, <2>2 DEF LoneInv
  <1>10. CASE worker_binds
    BY <1>10 DEF worker_binds, LoneInv, Lone, Active, Owed
  <1>11. CASE worker_exits
    <2> DEFINE met == Hiccup(call, Call)
    <2>1. /\ met \in Calls
          /\ \A d \in Call :
               /\ met[d].at = call[d].at /\ met[d].alone = call[d].alone
               /\ met[d].left = call[d].left
               /\ call[d].at # "idle" =>
                    met[d].met >= call[d].met + 1 \/ met[d].met = Retries
      BY <1>a, HiccupType
    <2>2. call' = Severed(met) /\ parent' = parent /\ child' = "exited"
      BY <1>11 DEF worker_exits
    <2>3. child \in {"starting", "bound"}
      BY <1>11 DEF worker_exits
    <2> HIDE DEF met
    <2>4. \A d \in Call :
            /\ call'[d].at = IF call[d].at \in InWorker THEN "broken" ELSE call[d].at
            /\ call'[d].left = met[d].left /\ call'[d].met = met[d].met
            /\ call'[d].alone = met[d].alone
      BY <2>1, <2>2, SeveredType
    <2> SUFFICES ASSUME NEW d \in Call, Lone(d)'
                 PROVE  (\A e \in Call \ {d} : ~Active(e))' /\ Paid(d)'
      BY DEF LoneInv, Paid
    <2>5. Lone(d)
      BY <2>1, <2>2, <2>4 DEF Lone, Active, InWorker
    <2>6. (\A e \in Call \ {d} : ~Active(e))'
      BY <2>4, <2>5 DEF LoneInv, Active, InWorker
    <2>7. Paid(d)'
      BY <1>a, <2>1, <2>2, <2>3, <2>4, <2>5, WorkerAssumption
      DEF LoneInv, Lone, Active, Paid, Owed, Calls, CallRecord, InWorker
    <2> QED
      BY <2>6, <2>7
  <1>12. ASSUME NEW c \in Call, reject(c) PROVE LoneInv'
    <2>1. /\ call' \in Calls /\ call'[c].at = "reply"
          /\ call'[c].left = call[c].left /\ call'[c].met = call[c].met
          /\ call'[c].alone = call[c].alone
          /\ \A d \in Call \ {c} : call'[d] = call[d]
      BY <1>12, <1>a, <1>c, GotoType DEF reject, InWorker
    <2>2. Active(c) /\ call[c].at \notin {"reply", "unavailable"} /\ parent' = parent
      BY <1>12 DEF reject, Active, Serves
    <2>3. Lone(c) => Paid(c)'
      BY <1>12, <1>a, <2>1, <2>2, WorkerAssumption
      DEF reject, LoneInv, Paid, Owed, Calls, CallRecord, Served, InWorker, Serves
    <2> QED
      BY <2>1, <2>2, <2>3, LoneActor
  <1>13. ASSUME NEW c \in Call, build_sdk(c) PROVE LoneInv'
    <2>1. /\ call' \in Calls /\ call'[c].at = "work"
          /\ call'[c].left = call[c].left /\ call'[c].met = call[c].met
          /\ call'[c].alone = call[c].alone
          /\ \A d \in Call \ {c} : call'[d] = call[d]
      BY <1>13, <1>a, <1>c, GotoType DEF build_sdk, InWorker
    <2>2. Active(c) /\ call[c].at \notin {"reply", "unavailable"} /\ parent' = parent
      BY <1>13 DEF build_sdk, Active, Serves
    <2>3. Lone(c) => Paid(c)'
      BY <1>13, <1>a, <2>1, <2>2, WorkerAssumption
      DEF build_sdk, LoneInv, Paid, Owed, Calls, CallRecord, Served, InWorker, Serves
    <2> QED
      BY <2>1, <2>2, <2>3, LoneActor
  <1>14. ASSUME NEW c \in Call, ensure_agg_pk(c) PROVE LoneInv'
    <2>1. /\ call' \in Calls /\ call'[c].at \in {"app", "work"}
          /\ call'[c].left = call[c].left /\ call'[c].met = call[c].met
          /\ call'[c].alone = call[c].alone
          /\ \A d \in Call \ {c} : call'[d] = call[d]
      BY <1>14, <1>a, <1>c, GotoType DEF ensure_agg_pk, InWorker
    <2>2. call[c].at = "look" /\ parent' = parent
      BY <1>14 DEF ensure_agg_pk, Serves
    <2>3. Lone(c) => Paid(c)'
      BY <2>1, <2>2 DEF LoneInv, Paid, Owed
    <2> QED
      BY <2>1, <2>2, <2>3, LoneActor DEF Active
  <1>15. ASSUME NEW c \in Call, ensure_app_pk(c) PROVE LoneInv'
    <2>1. /\ call' \in Calls /\ call'[c].at = "work"
          /\ call'[c].left = call[c].left /\ call'[c].met = call[c].met
          /\ call'[c].alone = call[c].alone
          /\ \A d \in Call \ {c} : call'[d] = call[d]
      BY <1>15, <1>a, <1>c, GotoType DEF ensure_app_pk, InWorker
    <2>2. Active(c) /\ call[c].at \notin {"reply", "unavailable"} /\ parent' = parent
      BY <1>15 DEF ensure_app_pk, Active, Serves
    <2>3. Lone(c) => Paid(c)'
      BY <1>15, <1>a, <2>1, <2>2, WorkerAssumption
      DEF ensure_app_pk, LoneInv, Paid, Owed, Calls, CallRecord, Served, InWorker, Serves
    <2> QED
      BY <2>1, <2>2, <2>3, LoneActor
  <1>16. ASSUME NEW c \in Call, finish(c) PROVE LoneInv'
    <2>1. /\ call' \in Calls /\ call'[c].at = "reply"
          /\ call'[c].left = call[c].left /\ call'[c].met = call[c].met
          /\ call'[c].alone = call[c].alone
          /\ \A d \in Call \ {c} : call'[d] = call[d]
      BY <1>16, <1>a, <1>c, GotoType DEF finish, InWorker
    <2>2. Active(c) /\ call[c].at \notin {"reply", "unavailable"} /\ parent' = parent
      BY <1>16 DEF finish, Active, Serves
    <2>3. Lone(c) => Paid(c)'
      BY <1>16, <1>a, <2>1, <2>2, WorkerAssumption
      DEF finish, LoneInv, Paid, Owed, Calls, CallRecord, Served, InWorker, Serves
    <2> QED
      BY <2>1, <2>2, <2>3, LoneActor
  <1>17. ASSUME NEW c \in Call, fail(c) PROVE LoneInv'
    <2>1. /\ call' \in Calls /\ call'[c].at = "reply"
          /\ call'[c].left = call[c].left /\ call'[c].met = call[c].met
          /\ call'[c].alone = call[c].alone
          /\ \A d \in Call \ {c} : call'[d] = call[d]
      BY <1>17, <1>a, <1>c, GotoType DEF fail, InWorker
    <2>2. Active(c) /\ call[c].at \notin {"reply", "unavailable"} /\ parent' = parent
      BY <1>17 DEF fail, Active, Serves
    <2>3. Lone(c) => Paid(c)'
      BY <1>17, <1>a, <2>1, <2>2, WorkerAssumption
      DEF fail, LoneInv, Paid, Owed, Calls, CallRecord, Served, InWorker, Serves
    <2> QED
      BY <2>1, <2>2, <2>3, LoneActor
  <1>18. ASSUME NEW c \in Call, panic(c) PROVE LoneInv'
    <2> DEFINE met == Hiccup(call, {c})
               to == IF parent = "hierophant" THEN "broken" ELSE "hung"
    <2>1. /\ met \in Calls
          /\ \A d \in Call : met[d].at = call[d].at /\ met[d].alone = call[d].alone
          /\ met[c].left = call[c].left
          /\ met[c].met >= call[c].met + 1 \/ met[c].met = Retries
      BY <1>18, <1>a, HiccupType DEF panic
    <2>2. call' = [met EXCEPT ![c].at = to] /\ call[c].at = "work" /\ parent' = parent
      BY <1>18 DEF panic, Serves
    <2>3. to \in Place /\ to # "idle" /\ (parent = "hierophant" => to = "broken")
      BY DEF Place, InWorker
    <2> HIDE DEF met, to
    <2>4. /\ call'[c] = [met[c] EXCEPT !.at = to]
          /\ \A d \in Call \ {c} : call'[d] = met[d]
      BY <2>1, <2>2, <2>3, MoveType
    <2>5. /\ call'[c].at = to /\ call'[c].left = met[c].left
          /\ call'[c].met = met[c].met /\ call'[c].alone = met[c].alone
      BY <2>1, <2>4 DEF Calls, CallRecord
    <2>6. Lone(c) => Paid(c)'
      BY <1>a, <2>1, <2>2, <2>3, <2>5, WorkerAssumption
      DEF LoneInv, Lone, Paid, Owed, Calls, CallRecord
    <2> QED
      BY <2>1, <2>2, <2>4, <2>5, <2>6, LoneActor DEF Active
  <1>19. CASE UNCHANGED vars
    BY <1>19 DEF vars, LoneInv, Lone, Active, Owed
  <1> QED
    BY <1>1, <1>2, <1>3, <1>4, <1>5, <1>6, <1>7, <1>8, <1>9, <1>10, <1>11, <1>12,
       <1>13, <1>14, <1>15, <1>16, <1>17, <1>18, <1>19
    DEF Next, call_blocking, handle_request

(* THEOREM: a verification that no other call has met fails only after as  *)
(* many hiccups of the worker as it has tries (verify_openvm_proof).       *)
THEOREM LoneVerify == Spec => []LoneVerifySurvives
  <1>1. Init => TypeOK /\ LoneInv
    BY InitType DEF Init, LoneInv, Lone, Active, Idle
  <1>2. TypeOK /\ LoneInv /\ [Next]_vars => (TypeOK /\ LoneInv)'
    BY StepType, StepLone
  <1>3. LoneInv => LoneVerifySurvives
    BY DEF LoneInv, LoneVerifySurvives, Lone, Active
  <1> QED
    BY <1>1, <1>2, <1>3, PTL DEF Spec
=============================================================================
