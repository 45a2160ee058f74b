---------------------------- MODULE ClientRequest ----------------------------
(***************************************************************************)
(* One call of the client at a time: the local refusals of the write       *)
(* helpers, the wait for a slot, one HTTP exchange, and the classification *)
(* of its answer.  The request travels on its own: the API may take it     *)
(* after the caller has given up.                                          *)
(***************************************************************************)
EXTENDS Naturals

CONSTANT None

ASSUME NoneIsNone == None \notin Nat \cup {"ok", "busy", "empty", "error"}

VARIABLES
    call,       \* the running or last call
    stage,      \* where the caller is in it
    cancelled,  \* the caller's context is done
    wire,       \* what has become of the request
    effect,     \* history: how often the API took it
    outcome     \* what the call returned, or None while it runs

callVars == <<call, stage, cancelled, wire, effect, outcome>>

\* The calls whose answers are told apart: two of them have a busy answer.
BusyPaths == {"putReferrers", "deleteCache"}
Bodied == {"post", "put", "putReferrers"}
Calls == {"get", "post", "put", "delete"} \cup BusyPaths

Stages == {"idle", "prepare", "admission", "flight"}
Wires == {"unsent", "flying", "accepted", "rejected"}

\* An answer: its status class, the code of its envelope ("none" when the body cannot
\* be read, is too large or no envelope), and its result: missing, given, or, like
\* the message, the text about another operation in progress.
Answers == [status : {"2xx", "3xx", "400", "404", "other"},
            code : {"SUCCESS", "NOT_FOUND", "EMPTY_SET", "none"},
            result : {"given", "busy", "missing"}]

CallTypeOK ==
    /\ call \in Calls
    /\ stage \in Stages
    /\ cancelled \in BOOLEAN
    /\ wire \in Wires
    /\ effect \in Nat
    /\ outcome \in {None, "ok", "busy", "empty", "error"}

CallInit ==
    /\ call = "get" /\ stage = "idle" /\ cancelled = FALSE
    /\ wire = "unsent" /\ effect = 0 /\ outcome = "error"

-----------------------------------------------------------------------------
\* What the API does with a request, and what its answers may look like: it says
\* SUCCESS only of what it took, and "busy" on the two cache paths only of what it
\* refused.  Nothing else is known of an answer, not even from its status.

Deliver ==
    /\ wire = "flying"
    /\ \/ wire' = "accepted" /\ effect' = effect + 1
       \/ wire' = "rejected" /\ UNCHANGED effect
    /\ UNCHANGED <<call, stage, cancelled, outcome>>

SaysBusy(a) == a.status = "404" /\ a.code = "NOT_FOUND" /\ a.result = "busy"

Possible(a) ==
    /\ wire \in {"accepted", "rejected"}
    /\ a.status = "2xx" /\ a.code = "SUCCESS" => wire = "accepted"
    /\ SaysBusy(a) /\ call \in BusyPaths => wire = "rejected"

\* Core stops the operation, or its deadline passes.
Cancel == /\ ~cancelled /\ cancelled' = TRUE
          /\ UNCHANGED <<call, stage, wire, effect, outcome>>

-----------------------------------------------------------------------------
Begin(c) ==
    /\ stage = "idle"
    /\ call' = c /\ outcome' = None
    /\ stage' = IF c \in Bodied THEN "prepare" ELSE "admission"
    /\ wire' = "unsent" /\ effect' = 0
    /\ UNCHANGED cancelled

Answer(o) == /\ stage' = "idle" /\ outcome' = o
             /\ UNCHANGED <<call, cancelled, wire, effect>>

\* The body is encoded; a bad path, field or size and a done context end the call.
Prepare ==
    /\ stage = "prepare"
    /\ \/ Answer("error")
       \/ /\ ~cancelled /\ stage' = "admission"
          /\ UNCHANGED <<call, cancelled, wire, effect, outcome>>

\* wait() returns (RateLimiter), and the signed request leaves.
Send ==
    /\ stage = "admission"
    /\ \/ Answer("error")
       \/ /\ ~cancelled /\ stage' = "flight" /\ wire' = "flying"
          /\ UNCHANGED <<call, cancelled, effect, outcome>>

\* The transport fails, the context is done, or the client's 30 seconds are over.
\* (Fault: only the caller's context bounds an exchange.)
TimeOut_ByContextOnly == stage = "flight" /\ cancelled /\ Answer("error")
TimeOut == stage = "flight" /\ Answer("error")

\* What the client makes of an answer.
Classify(c, a) ==
    IF SaysBusy(a) /\ c \in BusyPaths THEN "busy"
    ELSE IF a.status = "400" /\ a.code = "EMPTY_SET" THEN "empty"
    ELSE IF a.status = "2xx" /\ a.code = "SUCCESS" /\ a.result # "missing" THEN "ok"
    ELSE "error"

\* Fault: the answer to a redirected request is awaited.
Receive_Redirected ==
    /\ stage = "flight"
    /\ \E a \in Answers :
        /\ Possible(a)
        /\ IF a.status = "3xx"
           THEN wire' = "flying" /\ UNCHANGED <<call, stage, cancelled, effect, outcome>>
           ELSE Answer(Classify(call, a))

Receive ==
    /\ stage = "flight"
    /\ \E a \in Answers : Possible(a) /\ Answer(Classify(call, a))

\* The process ends between two calls, and with it all it knew of them.
Exit ==
    /\ stage = "idle" /\ UNCHANGED stage
    /\ call' = "get" /\ cancelled' = FALSE
    /\ wire' = "unsent" /\ effect' = 0 /\ outcome' = "error"

Exchange == Prepare \/ Send \/ TimeOut \/ Receive

-----------------------------------------------------------------------------
\* Every call keeps the contract of CallContract: no redirect, no transparent
\* repetition and no retry makes the API take it twice, a success was taken, and
\* what is reported as busy was not taken and will not be, so that a busy write
\* is the only one that may be sent again.
Contract == INSTANCE CallContract
CallKept == Contract!Spec
=============================================================================
