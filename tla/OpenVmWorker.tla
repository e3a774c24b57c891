---------------------------- MODULE OpenVmWorker ----------------------------
(***************************************************************************)
(* The openvm-worker subprocess and the client its parent drives it with   *)
(* (src/openvm-worker-proto, src/openvm-worker).  The Hierophant sends it  *)
(* proofs to verify, and tries again when the worker dies                  *)
(* (src/hierophant/src/openvm/verify.rs); a contemplant sends it programs  *)
(* to prove, once each.  Calls come from blocking threads and share the    *)
(* child process; the client's lock covers one look at the child, never a  *)
(* whole call.                                                             *)
(***************************************************************************)
EXTENDS Naturals, FiniteSets

CONSTANTS
  Call,          \* threads of the parent that call the worker
  Config,        \* app configs
  Retries,       \* VERIFY_TRANSPORT_RETRIES
  MaxHiccups,    \* bound: deaths and failed spawns of the worker
  Panics         \* parents whose worker's SDK may panic

ASSUME WorkerAssumption ==
  /\ Config # {}
  /\ Retries \in Nat \ {0}
  /\ MaxHiccups \in Nat
  /\ Panics \subseteq {"hierophant", "contemplant"}

VARIABLES
  parent,    \* who owns the client: "hierophant" or "contemplant"
  child,     \* WorkerClient.child: none, starting, bound to its socket, exited
  call,      \* where each call is
  app_pk,    \* APP_PK_CACHE of the running child: configs with an app key
  agg_pk,    \* AGG_PK_CACHE: configs with an aggregation key
  settled,   \* history: the keys that the child's finished requests have used
  hiccups    \* deaths and failed spawns so far

caches == <<app_pk, agg_pk, settled>>
vars == <<parent, child, call, caches, hiccups>>

(* A call: its request, where its thread is (in the parent, or in the      *)
(* worker that serves it), the tries it has left; history: the hiccups it  *)
(* met, and whether no other call ran meanwhile.                           *)
Idle == [at |-> "idle", left |-> 0, config |-> CHOOSE k \in Config : TRUE,
         aggregated |-> FALSE, met |-> 0, alone |-> TRUE]

InWorker == {"look", "app", "work", "hung"}
Active(c) == call[c].at # "idle"

Init ==
  /\ parent \in {"hierophant", "contemplant"}
  /\ child \in {"none", "starting"}
  /\ call = [c \in Call |-> Idle]
  /\ app_pk = {} /\ agg_pk = {} /\ settled = {}
  /\ hiccups = 0

-----------------------------------------------------------------------------
(* The client.                                                             *)
Goto(c, at) == call' = [call EXCEPT ![c].at = at]

begin(c, k, aggregated) ==
  /\ ~Active(c)
  /\ LET others == {d \in Call : Active(d)} IN
     call' = [d \in Call |->
       IF d = c
       THEN [at |-> "ensure", left |-> IF parent = "hierophant" THEN Retries ELSE 1,
             config |-> k, aggregated |-> aggregated, met |-> 0,
             alone |-> others = {}]
       ELSE IF d \in others THEN [call[d] EXCEPT !.alone = FALSE] ELSE call[d]]
  /\ UNCHANGED <<parent, child, caches, hiccups>>

(* Faulty variant: the last try is never made.                             *)
FailedEarly(calls, c) ==
  IF calls[c].left > 2
  THEN [calls EXCEPT ![c].at = "ensure", ![c].left = @ - 1]
  ELSE [calls EXCEPT ![c].at = "unavailable", ![c].left = 0]

(* A transport failure: the Hierophant tries again a number of times, a    *)
(* contemplant reports it.                                                 *)
Failed(calls, c) ==
  IF calls[c].left > 1
  THEN [calls EXCEPT ![c].at = "ensure", ![c].left = @ - 1]
  ELSE [calls EXCEPT ![c].at = "unavailable", ![c].left = 0]

(* Something went wrong with the worker, and these calls met it.  Retries  *)
(* of them are as many as matter.                                          *)
Hiccup(calls, who) ==
  [d \in Call |-> IF d \in who /\ calls[d].at # "idle" /\ calls[d].met < Retries
                  THEN [calls[d] EXCEPT !.met = @ + 1] ELSE calls[d]]

(* The calls a dead worker was serving read the end of the stream.         *)
Severed(calls) ==
  [d \in Call |-> IF calls[d].at \in InWorker
                  THEN [calls[d] EXCEPT !.at = "broken"] ELSE calls[d]]

Spawned ==
  /\ child' = "starting"
  /\ app_pk' = {} /\ agg_pk' = {} /\ settled' = {}

(* Faulty variant: a child that runs is replaced too.                      *)
ensure_fresh(c) ==
  /\ call[c].at = "ensure"
  /\ Spawned
  /\ Goto(c, "connect")
  /\ UNCHANGED <<parent, hiccups>>

(* A child that never was, or has exited, is replaced.                     *)
ensure_running(c) ==
  /\ call[c].at = "ensure"
  /\ IF child \in {"none", "exited"} THEN Spawned ELSE UNCHANGED <<child, caches>>
  /\ Goto(c, "connect")
  /\ UNCHANGED <<parent, hiccups>>

spawn_fails(c) ==
  /\ call[c].at = "ensure"
  /\ child \in {"none", "exited"}
  /\ hiccups < MaxHiccups
  /\ hiccups' = hiccups + 1
  /\ call' = Failed(Hiccup(call, Call), c)
  /\ UNCHANGED <<parent, child, caches>>

(* The worker accepts, and a thread of its own reads the request.          *)
connect(c) ==
  /\ call[c].at = "connect"
  /\ child = "bound"
  /\ Goto(c, "look")
  /\ UNCHANGED <<parent, child, caches, hiccups>>

(* No socket, or nobody listens on it.                                     *)
refused(c) ==
  /\ call[c].at = "connect"
  /\ child # "bound"
  /\ Goto(c, "refused")
  /\ UNCHANGED <<parent, child, caches, hiccups>>

(* Within the grace period: a child that has exited is reported, one that  *)
(* still binds (or that another call has killed) is waited for.            *)
check_child(c) ==
  /\ call[c].at = "refused"
  /\ IF child = "exited"
     THEN child' = "none" /\ call' = Failed(call, c)
     ELSE child' = child /\ Goto(c, "connect")
  /\ UNCHANGED <<parent, caches, hiccups>>

(* Faulty variant: a refused call waits for ever.                          *)
grace_endless(c) == call[c].at = "connect" /\ FALSE /\ UNCHANGED vars

(* Refused after STARTUP_GRACE: a child that is still starting has let     *)
(* every caller down; without a child, this one ran into the end of it.    *)
grace_over(c) ==
  /\ call[c].at = "connect"
  /\ child # "bound"
  /\ call' = [Hiccup(call, IF child = "starting" THEN Call ELSE {c})
                EXCEPT ![c].at = "broken"]
  /\ UNCHANGED <<parent, child, caches, hiccups>>

(* Whatever child there is by now is killed.                               *)
mark_dead(c) ==
  /\ call[c].at = "broken"
  /\ child' = "none"
  /\ call' = Failed(IF child = "bound" THEN Severed(call) ELSE call, c)
  /\ UNCHANGED <<parent, caches, hiccups>>

(* A terminal frame arrives, or the last try has failed.                   *)
return(c) ==
  /\ call[c].at \in {"reply", "unavailable"}
  /\ call' = [call EXCEPT ![c] = Idle]
  /\ UNCHANGED <<parent, child, caches, hiccups>>

-----------------------------------------------------------------------------
(* The worker process.                                                     *)
worker_binds ==
  /\ child = "starting"
  /\ child' = "bound"
  /\ UNCHANGED <<parent, call, caches, hiccups>>

worker_exits ==
  /\ child \in {"starting", "bound"}
  /\ hiccups < MaxHiccups
  /\ hiccups' = hiccups + 1
  /\ child' = "exited"
  /\ call' = Severed(Hiccup(call, Call))
  /\ UNCHANGED <<parent, caches>>

Serves == UNCHANGED <<parent, child, hiccups>>

(* A config that does not parse, or a mode that is not enabled.            *)
reject(c) ==
  /\ call[c].at = "look"
  /\ Goto(c, "reply")
  /\ Serves /\ UNCHANGED caches

(* The verifier starts from a cached app key where there is one; the       *)
(* prover generates it for every app proof.                                *)
build_sdk(c) ==
  /\ call[c].at = "look"
  /\ ~call[c].aggregated
  /\ Goto(c, "work")
  /\ Serves /\ UNCHANGED caches

(* The aggregation key: cached; or assembled from the key file, which the  *)
(* verifier does with an app key that it keeps; or left to the SDK, which  *)
(* generates it from nothing.                                              *)
ensure_agg_pk(c) ==
  LET k == call[c].config IN
  /\ call[c].at = "look"
  /\ call[c].aggregated
  /\ \/ /\ k \in agg_pk
        /\ Goto(c, "app")
        /\ UNCHANGED caches
     \/ /\ k \notin agg_pk
        /\ Goto(c, "app")
        /\ agg_pk' = agg_pk \cup {k}
        /\ app_pk' = IF parent = "hierophant" THEN app_pk \cup {k} ELSE app_pk
        /\ UNCHANGED settled
     \/ /\ k \notin agg_pk
        /\ Goto(c, "work")
        /\ UNCHANGED caches
  /\ Serves

(* An aggregation key is not accepted without an app key.                  *)
ensure_app_pk(c) ==
  /\ call[c].at = "app"
  /\ app_pk' = app_pk \cup {call[c].config}
  /\ Goto(c, "work")
  /\ Serves /\ UNCHANGED <<agg_pk, settled>>

Uses(c) ==
  {call[c].config} \X ((IF parent = "hierophant" THEN {"app"} ELSE {})
                       \cup (IF call[c].aggregated THEN {"agg"} ELSE {}))

(* Faulty variant: the keys of the SDK are not kept.                       *)
finish_unstored(c) ==
  /\ call[c].at = "work"
  /\ settled' = settled \cup Uses(c)
  /\ Goto(c, "reply")
  /\ Serves /\ UNCHANGED <<app_pk, agg_pk>>

(* The proof is made, or checked; the SDK's keys are kept.  The verifier   *)
(* keeps them whatever the proof is, the prover once it has one.           *)
finish(c) ==
  LET k == call[c].config IN
  /\ call[c].at = "work"
  /\ app_pk' = IF parent = "hierophant" THEN app_pk \cup {k} ELSE app_pk
  /\ agg_pk' = IF call[c].aggregated THEN agg_pk \cup {k} ELSE agg_pk
  /\ settled' = settled \cup Uses(c)
  /\ Goto(c, "reply")
  /\ Serves

(* The guest faults, or the proof does not decode: an Err frame.           *)
fail(c) ==
  /\ call[c].at = "work"
  /\ Goto(c, "reply")
  /\ Serves /\ UNCHANGED caches

(* The SDK panics.  Verification runs on the connection's thread, which    *)
(* takes the connection with it; proving has a thread of its own, without  *)
(* which the connection's thread waits for another request.                *)
panic(c) ==
  /\ call[c].at = "work"
  /\ parent \in Panics
  /\ call' = [Hiccup(call, {c})
                EXCEPT ![c].at = IF parent = "hierophant" THEN "broken" ELSE "hung"]
  /\ Serves /\ UNCHANGED caches

handle_request(c) ==
  \/ reject(c) \/ build_sdk(c) \/ ensure_agg_pk(c) \/ ensure_app_pk(c)
  \/ finish(c) \/ fail(c) \/ panic(c)

call_blocking(c) ==
  \/ ensure_running(c) \/ spawn_fails(c) \/ connect(c) \/ refused(c)
  \/ check_child(c) \/ grace_over(c) \/ mark_dead(c)

Next ==
  \/ \E c \in Call, k \in Config, aggregated \in BOOLEAN : begin(c, k, aggregated)
  \/ \E c \in Call : call_blocking(c) \/ handle_request(c) \/ return(c)
  \/ worker_binds \/ worker_exits

Spec == Init /\ [][Next]_vars

(* Threads run, a child that is left alone binds its socket, the grace     *)
(* period ends for a call that keeps being refused.                        *)
FairSpec ==
  /\ Spec
  /\ WF_vars(worker_binds)
  /\ \A c \in Call :
       /\ WF_vars(call_blocking(c)) /\ WF_vars(handle_request(c)) /\ WF_vars(return(c))
       /\ SF_vars(grace_over(c))

-----------------------------------------------------------------------------
(* Type invariant; a worker that does not listen serves nobody.            *)
TypeOK ==
  /\ parent \in {"hierophant", "contemplant"}
  /\ child \in {"none", "starting", "bound", "exited"}
  /\ call \in [Call ->
       [at : {"idle", "ensure", "connect", "refused", "broken", "unavailable", "reply"}
               \cup InWorker,
        left : 0..Retries, config : Config, aggregated : BOOLEAN,
        met : 0..Retries, alone : BOOLEAN]]
  /\ app_pk \subseteq Config /\ agg_pk \subseteq Config
  /\ settled \subseteq Config \X {"app", "agg"}
  /\ \A c \in Call : call[c].at \in InWorker => child = "bound"
  /\ \A c \in Call : call[c].at = "app" => call[c].config \in agg_pk

(* A verification that has the worker to itself is given up only after the *)
(* worker failed it as often as it may: a passing hiccup is not taken for  *)
(* a wrong proof.                                                          *)
LoneVerifySurvives ==
  \A c \in Call :
    call[c].at = "unavailable" /\ call[c].alone /\ parent = "hierophant"
      => call[c].met >= Retries

(* Whoever else calls, one hiccup of the local worker does not fail a      *)
(* verification, which the router would take for an invalid proof.         *)
VerifySurvives ==
  \A c \in Call :
    call[c].at = "unavailable" /\ parent = "hierophant" => call[c].met > 1

(* No request generates a key that the child already had for an earlier,   *)
(* finished one: neither the aggregation key, nor the verifier's app key.  *)
KeysStayWarm ==
  [][\A c \in Call :
       call[c].at = "look" /\ call'[c].at = "work" =>
         IF call[c].aggregated
         THEN <<call[c].config, "agg">> \notin settled
         ELSE <<call[c].config, "app">> \in settled => call[c].config \in app_pk]_vars

(* Every call returns, whatever other calls do to its worker.              *)
CallsReturn == \A c \in Call : Active(c) ~> ~Active(c)
=============================================================================
