--------------------------- MODULE SpawnedThread ---------------------------
(* One spawn_into_new_thread (promise/src/spawn.rs): a thread that works,  *)
(* passes its result through a channel and then wakes whoever has polled,  *)
(* and the main thread's poll, which looks into the channel and then       *)
(* stores its waker.  Thread and poll interleave between these steps.      *)
CONSTANT Nothing    \* no request, no result

(* thread: "none", "new", "sent", "ended" or "dropped";                    *)
(* poll: "idle", "queued", "empty", "parked", "ok" or "error";             *)
(* request: what the thread is given; result: what it sends.               *)
NoTask == [thread |-> "none", poll |-> "idle", request |-> Nothing, result |-> Nothing]
NewTask(x) == [thread |-> "new", poll |-> "queued", request |-> x, result |-> Nothing]

(* tx.send. *)
Sent(t, x) == [t EXCEPT !.thread = "sent", !.result = x]

(* The thread panics and drops its end of the channel; nobody is woken.    *)
Dropped(t) == [t EXCEPT !.thread = "dropped"]

(* waker.take and wake. *)
Woken(t) ==
    [t EXCEPT !.thread = "ended", !.poll = IF @ = "parked" THEN "queued" ELSE @]

(* try_recv. *)
Polled(t) ==
    [t EXCEPT !.poll = IF t.thread \in {"sent", "ended"} THEN "ok"
                       ELSE IF t.thread = "dropped" THEN "error" ELSE "empty"]

(* waker.replace. *)
Parked(t) == [t EXCEPT !.poll = "parked"]

(* The thread is through, and the poll waits to be woken by it. *)
Lost(t) == t.poll = "parked" /\ t.thread \in {"ended", "dropped"}
=============================================================================
