------------------------------ MODULE Timeouts ------------------------------
(***************************************************************************)
(* The timeouts of a conn_worker of src/dw_node.c with an explicit clock:  *)
(* insert_timeout(), remove_timeout(), handle_timeout(), the timerfd that  *)
(* is set for the top of the timeout queue, and time_elapsed.  Times are   *)
(* in microseconds.  A key of the queue counts from the last time the      *)
(* queue was empty; `content[top] - timer' is the present on that scale.   *)
(* The queue is the collection of AbsPQueue.                               *)
(***************************************************************************)
EXTENDS Integers, FiniteSets

CONSTANTS Reqs,       \* the requests
          NoReq,      \* no request: the top of an empty queue
          Durations,  \* timeouts that FORWARDs ask for
          MaxInserts  \* bound on the insertions of a behaviour

ASSUME TimeoutConstants == /\ NoReq \notin Reqs
                           /\ Durations \subseteq Nat \ {0}
                           /\ MaxInserts \in Nat

VARIABLES content,  \* the keys of the timeouts in timeout_queue
          top,      \* pqueue_top(timeout_queue)
          timer,    \* microseconds until the timerfd expires, 0 if it is off
          readable, \* has the timerfd expired since it was last set?
          elapsed,  \* infos->time_elapsed
          retrying, \* the request that handle_timeout() sends again
          gone,     \* requests that ended and left their timeout behind
          left,     \* history: time to the deadline of each timeout
          ahead,    \* history: how far the keys were shifted while the queue
                    \* was not empty
          tie,      \* history: were two timeouts due at the same time?
          inserts   \* insertions so far

history == <<left, ahead, tie, inserts>>
vars == <<content, top, timer, readable, elapsed, retrying, gone, history>>

Queued == DOMAIN content

Init == /\ content = [r \in {} |-> 0]
        /\ top = NoReq
        /\ timer = 0
        /\ readable = FALSE
        /\ elapsed = 0
        /\ retrying = NoReq
        /\ gone = {}
        /\ left = [r \in Reqs |-> 0]
        /\ ahead = 0
        /\ tie = FALSE
        /\ inserts = 0
-----------------------------------------------------------------------------
\* its_to_us() of what timerfd_gettime() gives: fractions are cut off.
its_to_us == IF timer = 0 THEN {0} ELSE {timer - 1, timer}

\* The present on the scale of the keys, when v is left on the timer.
Present(v) == content[top] - v

\* The key of a new timeout when v is left on the timer.
NewKey(micros, v) == IF Queued = {} THEN micros
                     ELSE micros + elapsed + Present(v)

\* insert_timeout() for a request without a timeout in the queue.  Among
\* equal keys the heap keeps its top.
Insert(r, micros, v) ==
  LET key == NewKey(micros, v)
      isTop == Queued = {} \/ key < content[top]
  IN
  /\ content' = [q \in Queued \cup {r} |-> IF q = r THEN key ELSE content[q]]
  /\ elapsed' = IF Queued = {} THEN 0 ELSE elapsed
  /\ IF isTop
       THEN /\ top' = r
            /\ timer' = micros
            /\ readable' = FALSE
            /\ ahead' = IF Queued = {} THEN 0 ELSE ahead + elapsed + (timer - v)
       ELSE UNCHANGED <<top, timer, readable, ahead>>
  /\ left' = [left EXCEPT ![r] = micros]
  /\ inserts' = inserts + 1
  /\ UNCHANGED <<gone, tie>>

insert_timeout(r, micros) == \E v \in its_to_us : Insert(r, micros, v)

\* What the timer is set to for the next timeout.
DelayFromTop(next, v) == content[next] - content[top] \* mutant: as if the top
                                                     \* had expired
NoDelay(next, v) == 0 \* mutant: the timer is turned off
Delay(next, v) == content[next] - Present(v)

\* remove_timeout(): the timer is set again when the top goes; a delay of 0
\* turns it off.
RemoveOther(r) ==
  /\ r # top
  /\ content' = [q \in Queued \ {r} |-> content[q]]
  /\ UNCHANGED <<top, timer, readable, elapsed, ahead, tie>>

RemoveLast(r) ==
  /\ r = top /\ Queued = {r}
  /\ content' = [q \in Queued \ {r} |-> content[q]]
  /\ top' = NoReq
  /\ timer' = 0
  /\ readable' = FALSE
  /\ elapsed' = 0
  /\ ahead' = 0
  /\ UNCHANGED tie

RemoveTop(r, v, next) ==
  /\ r = top
  /\ next \in Queued \ {r}
  /\ \A q \in Queued \ {r} : content[next] <= content[q]
  /\ content' = [q \in Queued \ {r} |-> content[q]]
  /\ top' = next
  /\ timer' = Delay(next, v)
  /\ readable' = FALSE
  /\ elapsed' = Present(v)
  /\ ahead' = ahead + (timer - v)
  /\ tie' = (tie \/ content[next] = Present(v))

remove_timeout(r) ==
  /\ \/ RemoveOther(r)
     \/ RemoveLast(r)
     \/ \E v \in its_to_us, next \in Queued : RemoveTop(r, v, next)
  /\ left' = [left EXCEPT ![r] = 0]
  /\ UNCHANGED inserts
-----------------------------------------------------------------------------
Idle == retrying = NoReq

\* single_start_forward() of a request.  One whose timeout is in the queue
\* returns early.
Forward(r, micros) ==
  /\ Idle
  /\ r \in Reqs \ (gone \cup Queued)
  /\ inserts < MaxInserts
  /\ insert_timeout(r, micros)
  /\ UNCHANGED retrying

\* handle_forward_reply() with the last answer, or the error path of
\* exec_request.
Answered(r) ==
  /\ Idle
  /\ r \in Queued \ gone
  /\ remove_timeout(r)
  /\ UNCHANGED <<retrying, gone>>

\* A request ends with its connection; its timeout stays in the queue.
Vanish(r) ==
  /\ Idle
  /\ r \in Queued \ gone
  /\ gone' = gone \cup {r}
  /\ UNCHANGED <<content, top, timer, readable, elapsed, retrying, history>>

\* handle_timeout() on a TIMER event.  The queue is not empty then.
HandleExpired ==
  /\ Idle /\ readable
  /\ top \notin gone
  /\ remove_timeout(top)
  /\ \/ retrying' = NoReq
     \/ inserts < MaxInserts /\ retrying' = top
  /\ UNCHANGED gone

\* The request of the top is missing: the timer is turned off.
HandleMissing ==
  /\ Idle /\ readable
  /\ top \in gone
  /\ timer' = 0
  /\ readable' = FALSE
  /\ UNCHANGED <<content, top, elapsed, retrying, gone, history>>

\* ... and process_messages() of a request with retries left.
Retry(micros) ==
  /\ ~Idle
  /\ insert_timeout(retrying, micros)
  /\ retrying' = NoReq

\* Timers do not know about the worker, which may come late.
Tick ==
  /\ Queued # {}
  /\ timer' = IF timer > 0 THEN timer - 1 ELSE 0
  /\ readable' = (readable \/ timer = 1)
  /\ left' = [r \in Reqs |-> IF left[r] > 0 THEN left[r] - 1 ELSE 0]
  /\ UNCHANGED <<content, top, elapsed, retrying, gone, ahead, tie, inserts>>

Next == \/ \E r \in Reqs : \/ \E micros \in Durations : Forward(r, micros)
                           \/ Answered(r) \/ Vanish(r)
        \/ HandleExpired \/ HandleMissing
        \/ \E micros \in Durations : Retry(micros)
        \/ Tick

Spec == Init /\ [][Next]_vars

\* Time passes, and the worker serves its timer and finishes its handler.
FairSpec == /\ Spec
            /\ WF_vars(Tick)
            /\ WF_vars(HandleExpired \/ HandleMissing)
            /\ WF_vars(\E micros \in Durations : Retry(micros))
-----------------------------------------------------------------------------
(* dw_client.1: a FORWARD has a timeout to wait for.  It is not given up
   before that, except by what insert_timeout() and remove_timeout() shifted
   the keys in the queue: the time_elapsed added to a key that became the
   top, and the fractions its_to_us() cut off. *)
NeverTooEarly == readable => left[top] <= ahead

(* Every timeout ends: it is removed by an answer, or expires.  No insertion
   or removal makes the timer forget a timeout, other than of two that are
   due at the same time, or of a request that is missing. *)
EveryTimeoutEnds ==
  \A r \in Reqs : r \in Queued ~> (r \notin Queued \/ tie \/ gone # {})
=============================================================================
