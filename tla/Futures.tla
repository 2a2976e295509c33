------------------------------ MODULE Futures -------------------------------
(***************************************************************************)
(* worker::Future (future.i.h), and the three kinds of future that         *)
(* connection.i.h makes: a connection by the receptionist or an            *)
(* alpha::Locator, one by a Locator, which first queues and meanwhile calls *)
(* back, and a list of deployments.  A future wraps one of the C library,  *)
(* which is external: it takes its time, may be asked to wait for some of  *)
(* it, and says of its Get function that "it is an error to call this      *)
(* method again once it has succeeded".                                    *)
(***************************************************************************)
EXTENDS Naturals

VARIABLES
  kind,       \* what the future is of, "none" before there is one
  future,     \* the C library's future
  impl,       \* FutureImpl: whether it is there, result, moved_from
  call,       \* the call of the user's that waits in the C library
  told,       \* Wait() has said that the result is available
  owner,      \* who has the result
  callback,   \* the queue status callback is allocated
  misuse      \* what the C library says must not happen, happened

futureVars == << kind, future, impl, call, told, owner, callback, misuse >>

Kinds == { "receptionist", "locator", "deployments" }
Waiting == { "wait", "wait_some", "get" }

FutureInit ==
  /\ kind = "none"
  /\ future = "none"
  /\ impl = [ there |-> FALSE, result |-> FALSE, moved_from |-> FALSE ]
  /\ call = "none"
  /\ told = FALSE
  /\ owner = "nobody"
  /\ callback = FALSE
  /\ misuse = FALSE

-----------------------------------------------------------------------------
(* The C library.                                                          *)

(* A worker in the queue is told how it stands, and goes on queueing       *)
(* unless its callback, which LocatorQueueStatusThunk calls, says no.      *)
QueueStatus ==
  /\ future = "queueing"
  /\ misuse' = (misuse \/ ~callback)
  /\ \E goes_on \in BOOLEAN : future' = IF goes_on THEN "queueing" ELSE "ready"
  /\ UNCHANGED << kind, impl, call, told, owner, callback >>

(* The attempt is over, with whatever result.                              *)
Complete ==
  /\ future \in { "queueing", "pending" }
  /\ future' \in { "pending", "ready" } \ {future}
  /\ UNCHANGED << kind, impl, call, told, owner, callback, misuse >>

-----------------------------------------------------------------------------
(* ConnectAsync and GetDeploymentListAsync.  A queue status callback is    *)
(* shared with the function that gets the result.                          *)
MakeFuture(k) ==
  /\ kind = "none"
  /\ kind' = k
  /\ future' = IF k = "locator" THEN "queueing" ELSE "pending"
  /\ impl' = [ there |-> TRUE, result |-> FALSE, moved_from |-> FALSE ]
  /\ callback' = (k = "locator")
  /\ UNCHANGED << call, told, owner, misuse >>

(* Fault: the C library is always asked.                                   *)
WaitAlways(c) ==
  /\ impl.there /\ call = "none"
  /\ call' = c
  /\ UNCHANGED << kind, future, impl, told, owner, callback, misuse >>

(* Future::Wait, as far as the call of the C library: with a timeout or    *)
(* without.                                                                *)
Wait(c) ==
  /\ impl.there /\ call = "none"
  /\ IF impl.result THEN told' = TRUE /\ UNCHANGED call
                    ELSE call' = c /\ UNCHANGED told
  /\ UNCHANGED << kind, future, impl, owner, callback, misuse >>

(* Future::Get; a second call would terminate the program, and is not made. *)
Get ==
  /\ impl.there /\ call = "none"
  /\ ~impl.moved_from
  /\ IF impl.result
     THEN /\ impl' = [ impl EXCEPT !.moved_from = TRUE ]
          /\ owner' = "user"
          /\ UNCHANGED call
     ELSE /\ call' = "get"
          /\ UNCHANGED << impl, owner >>
  /\ UNCHANGED << kind, future, told, callback, misuse >>

(* The C library returns the result, and with it Wait() or Get().          *)
Return ==
  /\ call \in Waiting
  /\ future \in { "ready", "taken" }
  /\ future' = "taken"
  /\ misuse' = (misuse \/ future = "taken")
  /\ impl' = [ impl EXCEPT !.result = TRUE, !.moved_from = (call = "get") ]
  /\ owner' = IF call = "get" THEN "user" ELSE "future"
  /\ told' = (told \/ call # "get")
  /\ call' = "none"
  /\ UNCHANGED << kind, callback >>

(* It gives up, and Wait() returns false; the result may have come just    *)
(* then.                                                                   *)
TimeOut ==
  /\ call = "wait_some"
  /\ call' = "none"
  /\ UNCHANGED << kind, future, impl, told, owner, callback, misuse >>

(* ~FutureImpl: destroy() "blocks until the future has completed", and     *)
(* only then the members go, with the callback and the result.             *)
Destroy ==
  /\ impl.there /\ call = "none"
  /\ call' = "destroy"
  /\ UNCHANGED << kind, future, impl, told, owner, callback, misuse >>

DestroyReturns ==
  /\ call = "destroy"
  /\ future \in { "ready", "taken" }
  /\ future' = "destroyed"
  /\ impl' = [ there |-> FALSE, result |-> FALSE, moved_from |-> FALSE ]
  /\ owner' = IF owner = "future" THEN "nobody" ELSE owner
  /\ callback' = FALSE
  /\ call' = "none"
  /\ told' = FALSE
  /\ UNCHANGED << kind, misuse >>

FutureStep ==
  \/ \E k \in Kinds : MakeFuture(k)
  \/ \E c \in { "wait", "wait_some" } : Wait(c)
  \/ Get
  \/ Return
  \/ TimeOut
  \/ Destroy
  \/ DestroyReturns

FutureEnvironment == QueueStatus \/ Complete

-----------------------------------------------------------------------------
(* However the user waits, with timeouts and after them, the C library is  *)
(* asked no more once it has given the result, and calls the queue status  *)
(* callback only while there is one; the result is at one place from then  *)
(* on, with the future that still has it or with the user; and a Get()     *)
(* after a Wait() that returned true does not block.                       *)
TheResultComesOnce ==
  /\ ~misuse
  /\ future = "queueing" => callback
  /\ impl.there => (future = "taken" <=> owner # "nobody")
  /\ owner = "user" /\ impl.there => impl.moved_from
  /\ told => call \notin Waiting
=============================================================================
