----------------------------- MODULE ThreadPool -----------------------------
(***************************************************************************)
(* tools::threadpool (common/threadpool.cpp) and the threads that use it.  *)
(* A thread is a stack of frames.  At the bottom of a worker is run(false), *)
(* at the bottom of a client one of its own functions; above that are jobs, *)
(* since wait() takes jobs from the queue while it waits, whoever they     *)
(* belong to, and submit may run a job on the spot.                        *)
(*                                                                         *)
(* What a client or a job does with the pool is its script: the jobs it    *)
(* submits to a waiter of its own, and where it calls wait().  A step is   *)
(* what happens under one hold of the pool's or a waiter's mutex.  The     *)
(* pool is destroyed when its clients are gone, as the static pools are.   *)
(***************************************************************************)
EXTENDS Integers, FiniteSets, SequencesExt

CONSTANTS
    Worker,     \* the threads of the pool, max - 1 of them
    Client,     \* other threads
    Job,
    Leaf,       \* jobs submitted as leaf routines: they use no pool
    Throws,     \* jobs that end with an exception
    Script      \* Script[x]: a sequence over Job and "wait"

Thread == Worker \cup Client

Jobs(x) == Range(Script[x]) \ {"wait"}

ASSUME PoolConstants ==
    /\ \A x \in Client \cup Job : Range(Script[x]) \subseteq Job \cup {"wait"}
    /\ \A j \in Leaf : Script[j] = <<>>
    /\ \A j \in Job : Cardinality({x \in Client \cup Job : j \in Jobs(x)}) = 1

max == Cardinality(Worker) + 1

Owner(j) == CHOOSE x \in Client \cup Job : j \in Jobs(x)

VARIABLES
    stack,      \* stack[t]: the frames of a thread, the running one last
    queue, active, running,
    depth, is_leaf,     \* per thread
    num, error_flag,    \* of the waiter of each client and job
    done, failed        \* jobs that returned or threw; those that threw

vars == <<stack, queue, active, running, depth, is_leaf, num, error_flag, done, failed>>

\* where: what the frame does next.  busy: run is in the middle of a job.
\* ok: what the last wait() returned.  closing: in the waiter's destructor.
Frame(x, inline) ==
    [who |-> x, i |-> 1, where |-> "submit", inline |-> inline, busy |-> FALSE,
     ok |-> TRUE, exc |-> FALSE, closing |-> FALSE]

\* The next thing in the script.  wait() begins with run(true); so does the
\* waiter's destructor, at the end of the script and when a job that was run
\* on the spot throws.
GoOn(f, wait_begins, end_begins) ==
    LET over == f.exc \/ f.i > Len(Script[f.who])
    IN  [f EXCEPT !.closing = over, !.exc = @ \/ (over /\ f.who \in Throws),
                  !.where = IF Script[f.who] = <<>> THEN "leave"
                            ELSE IF over THEN end_begins
                            ELSE IF Script[f.who][f.i] = "wait" THEN wait_begins ELSE "submit"]

Resume_NoDestructor(f) == GoOn(f, "run", "leave")

Resume_NoFlush(f) == GoOn(f, "cv", "cv")

Resume(f) == GoOn(f, "run", "run")

Init ==
    /\ stack = [t \in Thread |-> IF t \in Worker THEN <<[Frame(t, FALSE) EXCEPT !.where = "run"]>>
                                 ELSE <<Resume(Frame(t, FALSE))>>]
    /\ queue = <<>> /\ active = 0 /\ running = TRUE
    /\ depth = [t \in Thread |-> 0] /\ is_leaf = [t \in Thread |-> FALSE]
    /\ num = [x \in Client \cup Job |-> 0] /\ error_flag = [x \in Client \cup Job |-> FALSE]
    /\ done = {} /\ failed = {}

Top(t) == Last(stack[t])

At(t, where) == stack[t] # <<>> /\ Top(t).where = where

Replace(t, f) == Append(Front(stack[t]), f)

Wake(s, S, from, to) ==
    [t \in Thread |-> IF t \in S /\ s[t] # <<>> /\ Last(s[t]).where = from
                      THEN Append(Front(s[t]), [Last(s[t]) EXCEPT !.where = to]) ELSE s[t]]

\* notify_one on has_work
Notified == LET S == {t \in Worker : At(t, "asleep")}
            IN  IF S = {} THEN {{}} ELSE {{t} : t \in S}

-----------------------------------------------------------------------------
OnTheSpot(t, j) == j \notin Leaf /\ ((active = max /\ queue # <<>>) \/ depth[t] > 0)

\* The check that a leaf routine does not get here is NoFalseLeaf.
submit(t) ==
    LET f == Top(t)
        j == Script[f.who][f.i]
    IN  /\ At(t, "submit")
        /\ ~is_leaf[t]
        /\ IF OnTheSpot(t, j)
           THEN /\ stack' = [stack EXCEPT ![t] = Append(@, Resume(Frame(j, TRUE)))]
                /\ depth' = [depth EXCEPT ![t] = @ + 1]
                /\ UNCHANGED <<queue, num>>
           ELSE /\ num' = [num EXCEPT ![f.who] = @ + 1]
                /\ queue' = IF j \in Leaf THEN <<j>> \o queue ELSE Append(queue, j)
                /\ \E S \in Notified :
                      stack' = Wake([stack EXCEPT ![t] = Replace(t, Resume([f EXCEPT !.i = @ + 1]))],
                                    S, "asleep", "run")
                /\ UNCHANGED depth
        /\ UNCHANGED <<active, running, is_leaf, error_flag, done, failed>>

\* One hold of the mutex in run: after a job, if any, the next one is taken
run(t) ==
    LET f == [Top(t) EXCEPT !.busy = FALSE]
        others == active - (IF Top(t).busy THEN 1 ELSE 0)
    IN  /\ At(t, "run")
        /\ IF running /\ queue # <<>>
           THEN /\ stack' = [stack EXCEPT ![t] = Append(Replace(t, [f EXCEPT !.busy = TRUE]),
                                                        Resume(Frame(Head(queue), FALSE)))]
                /\ queue' = Tail(queue)
                /\ active' = others + 1
                /\ depth' = [depth EXCEPT ![t] = @ + 1]
                /\ is_leaf' = [is_leaf EXCEPT ![t] = Head(queue) \in Leaf]
           ELSE /\ stack' = [stack EXCEPT ![t] =
                                IF f.who \notin Worker THEN Replace(t, [f EXCEPT !.where = "cv"])
                                ELSE IF running THEN Replace(t, [f EXCEPT !.where = "asleep"]) ELSE <<>>]
                /\ active' = others
                /\ UNCHANGED <<queue, depth, is_leaf>>
        /\ UNCHANGED <<running, num, error_flag, done, failed>>

MayReturn_Flushed(x) == queue = <<>>

MayReturn(x) == num[x] = 0

\* wait(), after run(true) has returned
wait(t) ==
    LET f == Top(t)
    IN  /\ At(t, "cv")
        /\ stack' = [stack EXCEPT ![t] = Replace(t,
              IF ~MayReturn(f.who) THEN [f EXCEPT !.where = "cv_asleep"]
              ELSE IF f.closing THEN [f EXCEPT !.where = "leave"]
              ELSE Resume([f EXCEPT !.ok = ~error_flag[f.who], !.i = @ + 1]))]
        /\ UNCHANGED <<queue, active, running, depth, is_leaf, num, error_flag, done, failed>>

\* The waiter that hears of an exception in the job of f, and whether the
\* thread counts as inside a leaf routine after a job
Blamed_Runner(f, caller) == IF caller.who \in Worker THEN Owner(f.who) ELSE caller.who

Blamed(f, caller) == Owner(f.who)

LeafAfter_Kept(t) == is_leaf[t]

LeafAfter(t) == FALSE

\* A job returns or throws.  From submit the exception goes on to the caller,
\* past the statement that would decrement depth; run catches it, and dec()
\* tells the waiter.
Leave(t) ==
    LET f == Top(t)
        rest == Front(stack[t])
        caller == Last(rest)
        o == Owner(f.who)
    IN  /\ At(t, "leave") /\ f.who \in Job
        /\ done' = done \cup {f.who}
        /\ failed' = IF f.exc THEN failed \cup {f.who} ELSE failed
        /\ is_leaf' = [is_leaf EXCEPT ![t] = LeafAfter(t)]
        /\ IF f.inline
           THEN /\ depth' = [depth EXCEPT ![t] = IF f.exc THEN @ ELSE @ - 1]
                /\ stack' = [stack EXCEPT ![t] = Append(Front(rest),
                                Resume([caller EXCEPT !.exc = f.exc, !.i = IF f.exc THEN @ ELSE @ + 1]))]
                /\ UNCHANGED <<num, error_flag>>
           ELSE /\ depth' = [depth EXCEPT ![t] = @ - 1]
                /\ error_flag' = [error_flag EXCEPT ![Blamed(f, caller)] = @ \/ f.exc]
                /\ num' = [num EXCEPT ![o] = @ - 1]
                /\ stack' = Wake([stack EXCEPT ![t] = rest],
                                 {u \in Thread : num[o] = 1 /\ stack[u] # <<>> /\ Top(u).who = o},
                                 "cv_asleep", "cv")
        /\ UNCHANGED <<queue, active, running>>

Return(t) ==
    /\ At(t, "leave") /\ Top(t).who \in Client
    /\ stack' = [stack EXCEPT ![t] = <<>>]
    /\ UNCHANGED <<queue, active, running, depth, is_leaf, num, error_flag, done, failed>>

destroy ==
    /\ running /\ \A c \in Client : stack[c] = <<>>
    /\ running' = FALSE
    /\ stack' = Wake(stack, Worker, "asleep", "run")
    /\ UNCHANGED <<queue, active, depth, is_leaf, num, error_flag, done, failed>>

Step(t) == submit(t) \/ run(t) \/ wait(t) \/ Leave(t) \/ Return(t)

Next == (\E t \in Thread : Step(t)) \/ destroy

Spec == Init /\ [][Next]_vars /\ (\A t \in Thread : WF_vars(Step(t))) /\ WF_vars(destroy)

-----------------------------------------------------------------------------
Frames == UNION {{stack[t][n] : n \in DOMAIN stack[t]} : t \in Thread}

\* wait() returns when all the jobs submitted before it are finished, wherever
\* they ran.
WaitWaits ==
    \A f \in Frames : f.who \notin Worker =>
        \A k \in 1..(f.i - 1) : Script[f.who][k] = "wait" =>
            \A n \in 1..(k - 1) : Script[f.who][n] \in done \cup {"wait"}

\* "returns false iff any error": what wait() returned says whether a job
\* submitted before it threw.
WaitTellsErrors ==
    \A f \in Frames : f.who \notin Worker =>
        \A k \in 1..(f.i - 1) : Script[f.who][k] = "wait" /\ (\A n \in (k + 1)..(f.i - 1) : Script[f.who][n] # "wait") =>
            (f.ok <=> \A n \in 1..(k - 1) : Script[f.who][n] \notin failed)

\* A job, which refers to the locals of whoever submitted it, is in the queue
\* or running only while that function is still on some stack, exceptions or
\* not: the waiter's destructor sees to that.
OwnerIsThere ==
    \A j \in Range(queue) \cup ({f.who : f \in Frames} \cap Job) : \E f \in Frames : f.who = Owner(j)

\* "A leaf routine is using a thread pool" is never thrown at a function that
\* is not one, whatever ran on top of it while it waited.
NoFalseLeaf == \A t \in Thread : At(t, "submit") => ~is_leaf[t]

\* Everybody gets through: no thread waits for ever, on the queue, on a waiter
\* or in the destructor of the pool, which joins its threads.
AllReturn == <>(\A t \in Thread : stack[t] = <<>>)
=============================================================================
