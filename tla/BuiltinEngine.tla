---------------------------- MODULE BuiltinEngine ----------------------------
(***************************************************************************)
(* The builtin engine: continuous batching (engine/engine_scheduler.py),   *)
(* the runner (engine/builtin/builtin_runner.py) and the paged contexts it *)
(* fills (engine/context/).                                                *)
(*                                                                         *)
(* engine_iter has no await: schedule(), run_iter() and finish() are one   *)
(* step of the event loop.  They are modelled phase by phase, `pc` says    *)
(* how far the iteration is, and the HTTP handlers run only at "idle".     *)
(* An exception in an iteration ends the engine process (fail fast).       *)
(*                                                                         *)
(* A job is one primitive request of the serve layer.  It is posted when   *)
(* the context it extends is filled, and a context is freed when no        *)
(* unfinished job needs it (GraphExecutor).  Tokens are only counted.  The *)
(* pool hands out any free block (IdAllocator); the model takes the least, *)
(* because no step depends on which block it is.                           *)
(***************************************************************************)
EXTENDS Naturals, Sequences, FiniteSets, SequencesExt, Subsequences

CONSTANTS
    Jobs,             \* numbered in the order of their task's plan
    Gens,             \* the Generate jobs; the others are Fill jobs
    Ctx, ParentCtx,   \* [Jobs -> context id], and parent context id or None
    TaskOf,           \* [Jobs -> task id]
    FillLen,          \* [Jobs -> Nat]: tokens of a Fill job
    MaxGenLength,     \* [Jobs -> Nat]: of a Generate job
    MaxBatchSize, MaxNumBatchedTokens, MaxTotalTokens,  \* SchedulerConfig
    Policies,         \* the policies the engine may start with
    BlockSize,
    NumBlocks,        \* blocks the pool can hand out: pool_size - 1 (RecyclePool)
    None

ASSUME EngineAssumption ==
    /\ Jobs \subseteq Nat /\ Gens \subseteq Jobs
    /\ FillLen \in [Jobs -> Nat] /\ MaxGenLength \in [Jobs -> Nat]
    /\ {MaxBatchSize, MaxNumBatchedTokens, MaxTotalTokens} \subseteq Nat
    /\ BlockSize \in Nat \ {0} /\ NumBlocks \in Nat
    /\ Policies \subseteq {"fifo", "fifo_v1"}

Contexts == {Ctx[j] : j \in Jobs}

\* What set_task_contexts of the serve layer guarantees of the contexts it
\* names: it forks contexts that earlier jobs fill, a Generate job always has
\* a context of its own, and that context is not cached, so nobody forks it.
ASSUME PlanAssumption ==
    /\ Ctx \in [Jobs -> Contexts] /\ None \notin Contexts
    /\ ParentCtx \in [Jobs -> Contexts \cup {None}]
    /\ \A j \in Gens, i \in Jobs :
          ParentCtx[i] # Ctx[j] /\ (Ctx[i] = Ctx[j] => i = j)

\* The node before every output has a token.  The serve layer does not check
\* it; without it a generation has nothing to start from.
PromptsFilled ==
    \A j \in Gens : \E i \in Jobs \ Gens :
        Ctx[i] = ParentCtx[j] /\ FillLen[i] > 0

Blocks == 0..(NumBlocks - 1)

VARIABLES
    policy,            \* policy, fixed when the engine starts
    waiting, running,  \* waiting_jobs, running_jobs
    clock,             \* one more for every job that arrives
    jobTime,           \* job_arrival_time, by context id
    taskTime,          \* task_arrival_time, by task id: never removed, because
                       \* the serve layer posts every job with end_flag False
    ctxs,              \* EngineContextManager.map
    genLength,         \* gen_length
    done,              \* jobs whose finish_event is set
    todo,              \* jobs run_iter has still to allocate for
    pc                 \* "idle", "admit", "preempt", "allocate", "down"

queues == <<waiting, running>>
times == <<clock, jobTime, taskTime>>
vars == <<policy, queues, times, ctxs, genLength, done, todo, pc>>

NoEntry == [x \in {} |-> None]

Init ==
    /\ policy \in Policies
    /\ waiting = <<>> /\ running = <<>>
    /\ clock = 0 /\ jobTime = NoEntry /\ taskTime = NoEntry
    /\ ctxs = NoEntry
    /\ genLength = [j \in Jobs |-> 0]
    /\ done = {}
    /\ todo = <<>>
    /\ pc = "idle"

Put(f, x, y) == [z \in DOMAIN f \cup {x} |-> IF z = x THEN y ELSE f[z]]
Drop(f, S) == [z \in DOMAIN f \ S |-> f[z]]

-----------------------------------------------------------------------------
(* Contexts.  slots is token_kv_block_ids: the block of every KV slot. *)

\* pad_to the next multiple of the block size: inside the last block.
Pad(slots) ==
    slots \o [i \in 1..((BlockSize - (Len(slots) % BlockSize)) % BlockSize) |->
                 slots[Len(slots)]]

\* The blocks destruction() gives back: token_kv_block_ids[::block_size].
BlocksOf(slots) ==
    {slots[i] : i \in {n \in DOMAIN slots : (n - 1) % BlockSize = 0}}

Used == UNION {BlocksOf(ctxs[c].slots) : c \in DOMAIN ctxs}
Free == Blocks \ Used

\* Indices at which _allocate_one takes a block, for n more slots.
NewBlockAt(slots, n) ==
    {i \in (Len(slots) + 1)..(Len(slots) + n) : (i - 1) % BlockSize = 0}

Extend_NoBoundary(slots, n) ==
    slots \o [i \in 1..n |-> IF slots = <<>> THEN CHOOSE b \in Free : TRUE
                             ELSE slots[Len(slots)]]

\* slots after allocate(n), with the least free blocks in ascending order.
Extend(slots, n) ==
    LET fresh(k) ==
          CHOOSE b \in Free : Cardinality({x \in Free : x < b}) = k - 1
        boundaries(i) == Cardinality({k \in NewBlockAt(slots, n) : k <= i})
    IN  [i \in 1..(Len(slots) + n) |->
            IF i <= Len(slots) THEN slots[i]
            ELSE IF boundaries(i) = 0 THEN slots[Len(slots)]
            ELSE fresh(boundaries(i))]

\* get_context_len: padding and all parents included.
ContextLen(c) ==
    LET len[d \in DOMAIN ctxs] ==
          Len(ctxs[d].slots)
          + IF ctxs[d].parent = None THEN 0 ELSE len[ctxs[d].parent]
    IN  len[c]

\* get_last_hidden_state is not None.
LastHidden(c) ==
    LET hidden[d \in DOMAIN ctxs] ==
          IF ctxs[d].tokens > 0 THEN ctxs[d].hidden
          ELSE ctxs[d].parent # None /\ hidden[ctxs[d].parent]
    IN  hidden[c]

-----------------------------------------------------------------------------
(* HTTP handlers *)

Posted == ToSet(waiting) \cup ToSet(running) \cup done

\* Everything before job j has run: the jobs that fill its parent context,
\* and the jobs before it on its own context, if a client sends several.
Preceding(j) ==
    {i \in Jobs : Ctx[i] = ParentCtx[j] \/ (Ctx[i] = Ctx[j] /\ i < j)}

\* The serve layer posts a job once, when everything before it has run.
Postable(j) == j \notin Posted /\ Preceding(j) \subseteq done

\* bind_job_context: a new context pads its parent.
BindJobContext(j) ==
    LET p == ParentCtx[j]
        padded == IF p = None THEN ctxs ELSE [ctxs EXCEPT ![p].slots = Pad(@)]
    IN  IF Ctx[j] \in DOMAIN ctxs THEN ctxs
        ELSE Put(padded, Ctx[j],
                 [parent |-> p, slots |-> <<>>, tokens |-> 0, hidden |-> FALSE])

\* _add_job: add_job, then bind_job_context.
AddJob(j) ==
    /\ pc = "idle"
    /\ Postable(j)
    /\ waiting' = Append(waiting, j)
    /\ clock' = clock + 1
    /\ jobTime' = Put(jobTime, Ctx[j], clock)
    /\ taskTime' = IF TaskOf[j] \in DOMAIN taskTime THEN taskTime
                   ELSE Put(taskTime, TaskOf[j], clock)
    /\ ctxs' = BindJobContext(j)
    /\ UNCHANGED <<policy, running, genLength, done, todo, pc>>

\* The serve layer has no further use for context c.
Unneeded(c) ==
    \A j \in Jobs : c \in {Ctx[j], ParentCtx[j]} => j \in done

\* free_context: refused only for a job that runs.  Sub-contexts go first.
FreeContext(c) ==
    /\ pc = "idle"
    /\ c \in DOMAIN ctxs /\ Unneeded(c)
    /\ \A d \in DOMAIN ctxs : ctxs[d].parent # c
    /\ \A j \in ToSet(running) : Ctx[j] # c
    /\ ctxs' = Drop(ctxs, {c})
    /\ UNCHANGED <<policy, queues, times, genLength, done, todo, pc>>

-----------------------------------------------------------------------------
(* engine_iter: schedule *)

JobTokens(j) == IF j \in Gens THEN 1 ELSE FillLen[j]

ContextTokens(q) == FoldLeft(LAMBDA n, j : n + ContextLen(Ctx[j]), 0, q)

\* Running Generate jobs are those of earlier iterations: one token each.
NumTokens(q) == FoldLeft(LAMBDA n, j : n + JobTokens(j), 0, q)
BatchedTokens == NumTokens(running)
TotalTokens == ContextTokens(running)

StartIter ==
    /\ pc = "idle"
    /\ waiting # <<>> \/ running # <<>>
    /\ pc' = "admit"
    /\ UNCHANGED <<policy, queues, times, ctxs, genLength, done, todo>>

\* The constraints on the next job to be taken from the queue.
Admissible(j) ==
    /\ Len(running) + 1 <= MaxBatchSize
    /\ BatchedTokens + JobTokens(j) <= MaxNumBatchedTokens
    /\ policy = "fifo_v1" =>
          TotalTokens + ContextLen(Ctx[j]) <= MaxTotalTokens

Admit ==
    /\ pc = "admit"
    /\ waiting # <<>> /\ Admissible(Head(waiting))
    /\ running' = Append(running, Head(waiting))
    /\ waiting' = Tail(waiting)
    /\ UNCHANGED <<policy, times, ctxs, genLength, done, todo, pc>>

\* run_iter sorts its copy of the batch: Fill jobs first.
FillsFirst(q) == SelectAt(q, {i \in DOMAIN q : q[i] \notin Gens})
                 \o SelectAt(q, {i \in DOMAIN q : q[i] \in Gens})

AdmitEnds ==
    /\ pc = "admit"
    /\ waiting # <<>> => ~Admissible(Head(waiting))
    /\ IF policy = "fifo" THEN pc' = "preempt" /\ todo' = <<>>
                          ELSE pc' = "allocate" /\ todo' = FillsFirst(running)
    /\ UNCHANGED <<policy, queues, times, ctxs, genLength, done>>

Earlier(i, j) ==
    \/ taskTime[TaskOf[i]] < taskTime[TaskOf[j]]
    \/ /\ taskTime[TaskOf[i]] = taskTime[TaskOf[j]]
       /\ jobTime[Ctx[i]] < jobTime[Ctx[j]]

\* The batch sorted by the arrival of the task and of the job.
ByArrival(q) ==
    CHOOSE s \in [DOMAIN q -> ToSet(q)] :
        /\ ToSet(s) = ToSet(q)
        /\ \A i, j \in DOMAIN q : i < j => Earlier(s[i], s[j])

Kept_OneTooMany(q) ==
    CHOOSE n \in 0..Len(q) :
        /\ n = Len(q) \/ ContextTokens(SubSeq(q, 1, n)) > MaxTotalTokens
        /\ \A m \in 0..(n - 1) :
              ContextTokens(SubSeq(q, 1, m)) <= MaxTotalTokens

\* How many jobs of the sorted batch fit: the first that does not fit and
\* all behind it are preempted.
Kept(q) ==
    CHOOSE n \in 0..Len(q) :
        /\ ContextTokens(SubSeq(q, 1, n)) <= MaxTotalTokens
        /\ n = Len(q) \/ ~(ContextTokens(SubSeq(q, 1, n + 1)) <= MaxTotalTokens)

Preempt_Drops ==
    /\ pc = "preempt"
    /\ LET sorted == ByArrival(running)
           n == Kept(sorted)
       IN  /\ running' = SubSeq(sorted, 1, n)
           /\ todo' = FillsFirst(SubSeq(sorted, 1, n))
    /\ pc' = "allocate"
    /\ UNCHANGED <<policy, waiting, times, ctxs, genLength, done>>

\* Each preempted job is inserted at the head of the queue, so they end up in
\* reverse order.
Preempt ==
    /\ pc = "preempt"
    /\ LET sorted == ByArrival(running)
           n == Kept(sorted)
       IN  /\ running' = SubSeq(sorted, 1, n)
           /\ waiting' = Reverse(SubSeq(sorted, n + 1, Len(sorted))) \o waiting
           /\ todo' = FillsFirst(SubSeq(sorted, 1, n))
    /\ pc' = "allocate"
    /\ UNCHANGED <<policy, times, ctxs, genLength, done>>

-----------------------------------------------------------------------------
(* engine_iter: run_iter *)

Grow(j) == IF j \in Gens THEN 1 ELSE FillLen[j]

CanAllocate(j) ==
    Cardinality(NewBlockAt(ctxs[Ctx[j]].slots, Grow(j))) <= Cardinality(Free)

FirstSampling_ClearsParent(j) ==
    [ctxs EXCEPT ![Ctx[j]].slots = Extend(@, 1),
                 ![Ctx[j]].tokens = IF LastHidden(Ctx[j]) THEN @ + 1 ELSE @,
                 ![ParentCtx[j]].hidden = FALSE]

\* A Generate job that starts samples its first token from the hidden state
\* its prompt left behind, and clears the hidden state of its own context.
FirstSampling(j) ==
    [ctxs EXCEPT ![Ctx[j]].slots = Extend(@, 1),
                 ![Ctx[j]].tokens = IF LastHidden(Ctx[j]) THEN @ + 1 ELSE @,
                 ![Ctx[j]].hidden = FALSE]

FillTokens(j) ==
    [ctxs EXCEPT ![Ctx[j]].slots = Extend(@, FillLen[j]),
                 ![Ctx[j]].tokens = @ + FillLen[j]]

Allocate ==
    /\ pc = "allocate"
    /\ todo # <<>>
    /\ LET j == Head(todo) IN
       /\ CanAllocate(j)
       /\ ctxs' = IF j \in Gens THEN FirstSampling(j) ELSE FillTokens(j)
       /\ genLength' = IF j \in Gens /\ LastHidden(Ctx[j])
                       THEN [genLength EXCEPT ![j] = @ + 1] ELSE genLength
    /\ todo' = Tail(todo)
    /\ UNCHANGED <<policy, queues, times, done, pc>>

\* The pool raises: the engine process ends.
AllocateRaises ==
    /\ pc = "allocate"
    /\ todo # <<>>
    /\ ~CanAllocate(Head(todo))
    /\ pc' = "down"
    /\ UNCHANGED <<policy, queues, times, ctxs, genLength, done, todo>>

CheckStop_Exceeds(j, stop) ==
    stop \/ genLength[j] + 1 > MaxGenLength[j]

\* check_stop after the token of this iteration; stop says that it is a stop
\* token.
CheckStop(j, stop) ==
    stop \/ genLength[j] + 1 >= MaxGenLength[j]

\* The jobs of the batch whose finish_event is set by this iteration.
Finished(batch, stops) ==
    (batch \ Gens) \cup {j \in batch \cap Gens : CheckStop(j, j \in stops)}

\* The model runs, contexts are updated, and finish() removes finished jobs.
RunModel ==
    /\ pc = "allocate"
    /\ todo = <<>>
    /\ LET batch == ToSet(running)
           fills == batch \ Gens
           gens == batch \cap Gens
       IN  \E stops \in SUBSET gens :
             LET finished == Finished(batch, stops) IN
             /\ ctxs' = [c \in DOMAIN ctxs |->
                   IF \E j \in fills : Ctx[j] = c
                   THEN [ctxs[c] EXCEPT !.hidden = TRUE]
                   ELSE IF \E j \in gens : Ctx[j] = c
                        THEN [ctxs[c] EXCEPT !.tokens = @ + 1]
                        ELSE ctxs[c]]
             /\ genLength' = [j \in Jobs |->
                   IF j \in gens THEN genLength[j] + 1 ELSE genLength[j]]
             /\ done' = done \cup finished
             /\ running' = SelectAt(running,
                   {i \in DOMAIN running : running[i] \notin finished})
             /\ jobTime' = Drop(jobTime, {Ctx[j] : j \in finished})
    /\ pc' = "idle"
    /\ UNCHANGED <<policy, waiting, clock, taskTime, todo>>

-----------------------------------------------------------------------------
Iter == \/ StartIter
        \/ Admit
        \/ AdmitEnds
        \/ Preempt
        \/ Allocate
        \/ AllocateRaises
        \/ RunModel

Next ==
    \/ \E j \in Jobs : AddJob(j)
    \/ \E j \in Jobs : FreeContext(Ctx[j])
    \/ Iter

Spec == Init /\ [][Next]_vars

\* engine_loop calls engine_iter again and again.
FairSpec == Spec /\ WF_vars(Iter)

-----------------------------------------------------------------------------
(* Properties *)

TypeOK ==
    /\ waiting \in Seq(Jobs) /\ running \in Seq(Jobs) /\ todo \in Seq(Jobs)
    /\ done \subseteq Jobs
    /\ genLength \in [Jobs -> Nat]
    /\ clock \in Nat
    /\ \A c \in DOMAIN ctxs :
          /\ ctxs[c].slots \in Seq(Blocks)
          /\ ctxs[c].tokens \in Nat /\ ctxs[c].hidden \in BOOLEAN
    /\ policy \in Policies
    /\ pc \in {"idle", "admit", "preempt", "allocate", "down"}

\* No KV block belongs to two contexts, and every block of a context is among
\* those its destruction gives back, once, although contexts grow token by
\* token, are padded when they are forked and are freed in any order.
BlocksExclusive ==
    /\ \A c, d \in DOMAIN ctxs :
          c # d => ToSet(ctxs[c].slots) \cap ToSet(ctxs[d].slots) = {}
    /\ \A c \in DOMAIN ctxs : LET s == ctxs[c].slots IN
          /\ ToSet(s) = BlocksOf(s)
          /\ \A i, k \in DOMAIN s :
                s[i] = s[k] <=> (i - 1) \div BlockSize = (k - 1) \div BlockSize

\* A forked context is block-aligned, so its children start a block of their
\* own, and it holds no more than one partly used block.
ForkedAligned ==
    \A c, d \in DOMAIN ctxs : ctxs[d].parent = c =>
        /\ Len(ctxs[c].slots) % BlockSize = 0
        /\ Len(ctxs[c].slots) < ctxs[c].tokens + BlockSize

\* Between iterations a Generate context has KV for all its tokens but the
\* last, whether or not the job was preempted in the meantime.
KVMatchesTokens ==
    pc = "idle" => \A j \in Gens : Ctx[j] \in DOMAIN ctxs =>
        LET x == ctxs[Ctx[j]] IN
        Len(x.slots) = IF x.tokens = 0 THEN 0 ELSE x.tokens - 1

\* The KV cache: blocks exclusive, forks aligned, slots and tokens in step.
MemorySound == TypeOK /\ BlocksExclusive /\ ForkedAligned /\ KVMatchesTokens

\* Every Generate job that is about to run has a token to continue from: one
\* of its own, or the hidden state its prompt left, which other jobs that
\* share the prompt do not consume.
FirstTokenDefined ==
    \A j \in ToSet(todo) \cap Gens :
        ctxs[Ctx[j]].tokens > 0 \/ LastHidden(Ctx[j])

\* schedule assumes that "running jobs must be all Gen jobs" when it starts.
RunningAreGens == pc = "idle" => ToSet(running) \subseteq Gens

\* The batch is complete and nothing of it has run.
Formed == todo # <<>> /\ Len(todo) = Len(running)

\* Under fifo_v1: the jobs this iteration has taken from the queue.  The others
\* are generations that have run before.
Joined == {j \in ToSet(running) : j \notin Gens \/ genLength[j] = 0}

\* The number of jobs and the number of batched tokens never pass their limits.
\* The total number of tokens, of contexts as they are when the batch is
\* formed, is held to max_total_tokens by preemption under fifo.  Under fifo_v1
\* only a job that joins is tested: it joins a batch that is within the limit
\* with it, and a batch can pass the limit only when nobody has joined it, by
\* the growth of generations that were running already.
BatchWithinLimits ==
    /\ Len(running) <= MaxBatchSize
    /\ BatchedTokens <= MaxNumBatchedTokens
    /\ policy = "fifo" /\ Formed => TotalTokens <= MaxTotalTokens
    /\ policy = "fifo_v1" /\ (pc = "admit" \/ Formed) /\ Joined # {}
          => TotalTokens <= MaxTotalTokens

\* A job is in one place only, the preemption neither loses nor duplicates it,
\* and "different jobs with the same context id can't present at the same time".
JobsInOnePlace ==
    /\ Cardinality(ToSet(waiting) \cup ToSet(running))
          = Len(waiting) + Len(running)
    /\ done \cap (ToSet(waiting) \cup ToSet(running)) = {}
    /\ \A i, j \in ToSet(waiting) \cup ToSet(running) :
          Ctx[i] = Ctx[j] => i = j
    /\ DOMAIN jobTime = {Ctx[j] : j \in ToSet(waiting) \cup ToSet(running)}

\* The batches: every job in one place, only generations between iterations,
\* the limits respected as far as the policy looks at them, through admission,
\* preemption and completion.
BatchSound == JobsInOnePlace /\ RunningAreGens /\ BatchWithinLimits

\* Every job that was posted finishes, however often it is preempted, unless
\* the pool of blocks gives out.
EveryJobFinishes ==
    \A j \in Jobs : j \in ToSet(waiting) ~> j \in done \/ pc = "down"

\* max_gen_length is passed by one token at most, when the first iteration,
\* which adds two tokens before check_stop, meets it; no preemption adds to
\* that.
GenLengthBounded ==
    \A j \in Gens : \/ genLength[j] <= MaxGenLength[j]
                    \/ genLength[j] <= 2 /\ MaxGenLength[j] <= 1
=============================================================================
