------------------------------ MODULE BlockFeed ------------------------------
(***************************************************************************)
(* The block feed of a run: a background task (BlockScanner) polls one     *)
(* node, walks back from the node's tip to the first block it has already  *)
(* seen, and then ingests the new blocks oldest first.  Ingesting a block  *)
(* adds to the shared counters and sends the block on a bounded broadcast  *)
(* channel, from which the capture tasks of the transaction-inclusion      *)
(* expectations receive.                                                   *)
(*                                                                         *)
(* The scanner awaits at three places (the consensus request, the storage  *)
(* request, the sleep); an abort takes effect only there.  The ingest loop *)
(* has no await, but every send in it is visible to the receivers at once, *)
(* so each ingest is a step of its own.                                    *)
(***************************************************************************)
EXTENDS Integers, Sequences, FiniteSets, FiniteSetsExt

CONSTANTS
    Block,        \* header ids of the blocks the polled node may ever store
    Genesis,      \* the genesis block, a member of Block
    ZeroId,       \* the all-zero header id, the parent of the genesis block
    Parent,       \* Parent[b]: the parent field of b's header
    Height,       \* Height[b]: the number of ancestors of b
    BlockTxs,     \* BlockTxs[b]: the transactions of b, each the set of the
                  \* accounts its outputs pay to
    Account,      \* the accounts that outputs pay to
    Capture,      \* the inclusion expectations that capture from the feed
    Tracked,      \* Tracked[c]: the accounts that capture c looks for
    Capacity,     \* capacity of the broadcast channel (1024 in the code)
    MaxFailures   \* bound: how many requests to the node may fail

ASSUME GenesisAssumption == Genesis \in Block /\ ZeroId \notin Block
ASSUME ParentAssumption ==
    /\ Parent \in [Block -> Block \cup {ZeroId}]
    /\ \A b \in Block : (Parent[b] = ZeroId) <=> (b = Genesis)
ASSUME HeightAssumption ==
    /\ Height \in [Block -> Nat]
    /\ Height[Genesis] = 0
    /\ \A b \in Block \ {Genesis} : Height[b] = Height[Parent[b]] + 1
ASSUME TxAssumption ==
    /\ DOMAIN BlockTxs = Block
    /\ Tracked \in [Capture -> SUBSET Account]
    /\ \A b \in Block : BlockTxs[b] \in Seq(SUBSET Account)
ASSUME BoundAssumption == Capacity \in Nat \ {0} /\ MaxFailures \in Nat

VARIABLES
    stored,       \* blocks the polled node has
    tip,          \* the tip the node reports
    failures,     \* how many requests have failed so far
    pc,           \* where the scanner is
    spawned,      \* the first catch-up succeeded: run() is a task of its own
    abortAsked,   \* BlockFeedTask::cleanup has called abort()
    cursor,       \* catch_up: the header looked at
    remaining,    \* catch_up: remaining_height
    stack,        \* catch_up: blocks fetched and not yet ingested, newest first
    seen,         \* BlockScanner.seen
    sent,         \* every record sent on the channel, oldest first; the channel
                  \* holds its last Capacity elements
    total,        \* BlockStats.total_transactions
    held,         \* the RunContext, and with it a sender of the channel, is alive
    cap           \* the capture tasks

nodeVars == <<stored, tip, failures>>
scanVars == <<pc, spawned, cursor, remaining, stack, seen>>
feedVars == <<sent, total>>
vars == <<nodeVars, scanVars, feedVars, abortAsked, held, cap>>

-----------------------------------------------------------------------------
(* The polled node: external, modelled from what catch_up asks of it.      *)

\* The node stores one more block, the child of one it has, and may adopt it.
NodeStores ==
    /\ \E b \in Block \ stored :
          /\ Parent[b] \in stored
          /\ stored' = stored \cup {b}
          /\ tip' \in {tip, b}
    /\ UNCHANGED <<failures, scanVars, feedVars, abortAsked, held, cap>>

\* The node changes its mind about the best branch, or restarts on an older tip.
NodeReorgs ==
    /\ \E b \in stored \ {tip} : tip' = b
    /\ UNCHANGED <<stored, failures, scanVars, feedVars, abortAsked, held, cap>>

-----------------------------------------------------------------------------
(* BlockScanner::catch_up                                                  *)

\* The end of a catch-up.  The first one is awaited by spawn_block_feed, which
\* then spawns run(): its loop starts the next catch-up at once.  In run() a
\* sleep follows.
AfterCatchUp ==
    /\ spawned' = TRUE
    /\ pc' = IF spawned THEN "sleep" ELSE "info"

\* consensus_info() answers with the node's tip and its height.
ConsensusInfo ==
    /\ pc = "info"
    /\ cursor' = tip
    /\ remaining' = Height[tip]
    /\ stack' = <<>>
    /\ pc' = "walk"
    /\ UNCHANGED <<nodeVars, feedVars, spawned, seen, abortAsked, held, cap>>

\* catch_up met a block that was ingested before.
WalkSeen ==
    /\ pc = "walk"
    /\ cursor \in seen
    /\ pc' = "ingest"
    /\ UNCHANGED <<nodeVars, feedVars, spawned, cursor, remaining, stack, seen,
                   abortAsked, held, cap>>

\* catch_up walked down to height 0: the genesis block is marked, not ingested.
WalkGenesis ==
    /\ pc = "walk"
    /\ cursor \notin seen
    /\ remaining = 0
    /\ seen' = seen \cup {cursor}
    /\ pc' = "ingest"
    /\ UNCHANGED <<nodeVars, feedVars, spawned, cursor, remaining, stack,
                   abortAsked, held, cap>>

\* catch_up asks the node for the block and awaits the answer.
WalkFetch ==
    /\ pc = "walk"
    /\ cursor \notin seen
    /\ remaining > 0
    /\ pc' = "fetch"
    /\ UNCHANGED <<nodeVars, feedVars, spawned, cursor, remaining, stack, seen,
                   abortAsked, held, cap>>

\* Mutant: a block is marked as seen when it is fetched, not when it is ingested.
StorageBlock_marksOnFetch ==
    /\ pc = "fetch"
    /\ cursor \in stored
    /\ stack' = Append(stack, cursor)
    /\ seen' = seen \cup {cursor}
    /\ LET parent == Parent[cursor] IN
       IF parent \in seen \/ parent = cursor
       THEN /\ pc' = "ingest"
            /\ UNCHANGED <<cursor, remaining>>
       ELSE /\ pc' = "walk"
            /\ cursor' = parent
            /\ remaining' = IF remaining > 0 THEN remaining - 1 ELSE 0
    /\ UNCHANGED <<nodeVars, feedVars, spawned, abortAsked, held, cap>>

\* The block arrived.  It goes on the stack, and the walk ends at a parent that
\* was ingested before.
StorageBlock ==
    /\ pc = "fetch"
    /\ cursor \in stored
    /\ stack' = Append(stack, cursor)
    /\ LET parent == Parent[cursor] IN
       IF parent \in seen \/ parent = cursor
       THEN /\ pc' = "ingest"
            /\ UNCHANGED <<cursor, remaining>>
       ELSE /\ pc' = "walk"
            /\ cursor' = parent
            /\ remaining' = IF remaining > 0 THEN remaining - 1 ELSE 0
    /\ UNCHANGED <<nodeVars, feedVars, spawned, seen, abortAsked, held, cap>>

\* Mutant: run() leaves its loop at the first error.
RequestFails_endsLoop ==
    /\ pc \in {"info", "fetch"}
    /\ failures < MaxFailures
    /\ failures' = failures + 1
    /\ stack' = <<>>
    /\ pc' = IF spawned THEN "stopped" ELSE "failed"
    /\ UNCHANGED <<stored, tip, feedVars, spawned, cursor, remaining, seen,
                   abortAsked, held, cap>>

\* A request failed, timed out, could not be decoded, or the node no longer has
\* the block: catch_up returns the error and drops the stack.  run() logs it and
\* sleeps; spawn_block_feed passes the error on.
RequestFails ==
    /\ pc \in {"info", "fetch"}
    /\ failures < MaxFailures
    /\ failures' = failures + 1
    /\ stack' = <<>>
    /\ pc' = IF spawned THEN "sleep" ELSE "failed"
    /\ UNCHANGED <<stored, tip, feedVars, spawned, cursor, remaining, seen,
                   abortAsked, held, cap>>

\* Mutant: the counter counts blocks.
Ingest_countsBlocks(b) ==
    /\ total' = total + 1
    /\ sent' = Append(sent, b)

\* BlockFeed::ingest: count the transactions, then send the record.
Ingest(b) ==
    /\ total' = total + Len(BlockTxs[b])
    /\ sent' = Append(sent, b)

\* Mutant: the ingested block is not marked as seen.
PopAndIngest_forgets ==
    /\ pc = "ingest"
    /\ stack # <<>>
    /\ Ingest(stack[Len(stack)])
    /\ stack' = SubSeq(stack, 1, Len(stack) - 1)
    /\ UNCHANGED <<nodeVars, pc, spawned, cursor, remaining, seen, abortAsked, held, cap>>

\* Mutant: the blocks are ingested in the order in which they were fetched.
PopAndIngest_newestFirst ==
    /\ pc = "ingest"
    /\ stack # <<>>
    /\ Ingest(Head(stack))
    /\ seen' = seen \cup {Head(stack)}
    /\ stack' = Tail(stack)
    /\ UNCHANGED <<nodeVars, pc, spawned, cursor, remaining, abortAsked, held, cap>>

\* One round of the ingest loop: the block on top of the stack is the oldest.
PopAndIngest ==
    /\ pc = "ingest"
    /\ stack # <<>>
    /\ LET b == stack[Len(stack)] IN
       /\ Ingest(b)
       /\ seen' = seen \cup {b}
       /\ stack' = SubSeq(stack, 1, Len(stack) - 1)
    /\ UNCHANGED <<nodeVars, pc, spawned, cursor, remaining, abortAsked, held, cap>>

CatchUpDone ==
    /\ pc = "ingest"
    /\ stack = <<>>
    /\ AfterCatchUp
    /\ UNCHANGED <<nodeVars, feedVars, cursor, remaining, stack, seen, abortAsked,
                   held, cap>>

\* The poll interval of run() is over.
Wake ==
    /\ pc = "sleep"
    /\ pc' = "info"
    /\ UNCHANGED <<nodeVars, feedVars, spawned, cursor, remaining, stack, seen,
                   abortAsked, held, cap>>

-----------------------------------------------------------------------------
(* The end of the feed                                                     *)

\* BlockFeedTask::cleanup aborts the task; the call returns at once.
CleanupAborts ==
    /\ spawned
    /\ ~abortAsked
    /\ abortAsked' = TRUE
    /\ UNCHANGED <<nodeVars, scanVars, feedVars, held, cap>>

\* The runtime drops the aborted task at one of its awaits.
TaskAborted ==
    /\ abortAsked
    /\ pc \in {"info", "fetch", "sleep"}
    /\ pc' = "stopped"
    /\ stack' = <<>>
    /\ UNCHANGED <<nodeVars, feedVars, spawned, cursor, remaining, seen, abortAsked,
                   held, cap>>

\* The owner of the cleanup guard (Runner or RunHandle) runs it in its Drop, and
\* drops its RunContext after that.
ContextDropped ==
    /\ abortAsked
    /\ held
    /\ held' = FALSE
    /\ UNCHANGED <<nodeVars, scanVars, feedVars, abortAsked, cap>>

\* Mutant: a running capture holds a clone of the feed, and with it a sender.
Closed_capturesHoldFeed ==
    ~held /\ pc = "stopped" /\ \A c \in Capture : cap[c].state # "running"

\* Every sender is gone: the scanner's and the context's.
Closed == ~held /\ pc = "stopped"

-----------------------------------------------------------------------------
(* The capture tasks of the inclusion expectations                         *)

\* The first position the channel still holds.
Oldest == IF Len(sent) > Capacity THEN Len(sent) - Capacity + 1 ELSE 1

\* How many transactions of block b pay an account that capture c tracks: a
\* transaction counts once, at its first such output.
CapturedTxs(c, b) ==
    Cardinality({i \in DOMAIN BlockTxs[b] : BlockTxs[b][i] \cap Tracked[c] # {}})

\* What a received record adds to the count: the genesis block is skipped.
RecordedTxs(c, b) == IF Parent[b] = ZeroId THEN 0 ELSE CapturedTxs(c, b)

\* start_capture subscribes: the receiver gets what is sent from now on.  A
\* second call finds the capture state and does nothing.
StartCapture(c) ==
    /\ spawned
    /\ held
    /\ cap[c].state = "idle"
    /\ cap' = [cap EXCEPT ![c].state = "running",
                          ![c].from = Len(sent) + 1,
                          ![c].next = Len(sent) + 1]
    /\ UNCHANGED <<nodeVars, scanVars, feedVars, abortAsked, held>>

\* recv() yields the next record.
CaptureRecv(c) ==
    /\ cap[c].state = "running"
    /\ cap[c].next >= Oldest
    /\ cap[c].next <= Len(sent)
    /\ cap' = [cap EXCEPT ![c].next = @ + 1,
                          ![c].observed = @ + RecordedTxs(c, sent[cap[c].next])]
    /\ UNCHANGED <<nodeVars, scanVars, feedVars, abortAsked, held>>

\* Mutant: a receiver that lagged leaves the loop.
CaptureLagged_stops(c) ==
    /\ cap[c].state = "running"
    /\ cap[c].next < Oldest
    /\ cap' = [cap EXCEPT ![c].state = "done"]
    /\ UNCHANGED <<nodeVars, scanVars, feedVars, abortAsked, held>>

\* recv() yields Lagged: records the channel has overwritten are skipped.
CaptureLagged(c) ==
    /\ cap[c].state = "running"
    /\ cap[c].next < Oldest
    /\ cap' = [cap EXCEPT ![c].next = Oldest,
                          ![c].skipped = @ + (Oldest - cap[c].next)]
    /\ UNCHANGED <<nodeVars, scanVars, feedVars, abortAsked, held>>

\* recv() yields Closed once the channel is closed and drained: the task ends.
CaptureClosed(c) ==
    /\ cap[c].state = "running"
    /\ cap[c].next = Len(sent) + 1
    /\ Closed
    /\ cap' = [cap EXCEPT ![c].state = "done"]
    /\ UNCHANGED <<nodeVars, scanVars, feedVars, abortAsked, held>>

CaptureTask(c) == CaptureRecv(c) \/ CaptureLagged(c) \/ CaptureClosed(c)

-----------------------------------------------------------------------------
Init ==
    /\ stored = {Genesis}
    /\ tip = Genesis
    /\ failures = 0
    /\ pc = "info"
    /\ spawned = FALSE
    /\ abortAsked = FALSE
    /\ cursor = Genesis
    /\ remaining = 0
    /\ stack = <<>>
    /\ seen = {}
    /\ sent = <<>>
    /\ total = 0
    /\ held = TRUE
    /\ cap = [c \in Capture |-> [state |-> "idle", from |-> 1, next |-> 1,
                                 observed |-> 0, skipped |-> 0]]

Node == NodeStores \/ NodeReorgs

\* What the scanner's task does when it is polled.
Scanner ==
    \/ ConsensusInfo
    \/ WalkSeen \/ WalkGenesis \/ WalkFetch
    \/ StorageBlock
    \/ PopAndIngest \/ CatchUpDone
    \/ Wake
    \/ TaskAborted

Next ==
    \/ Node
    \/ Scanner
    \/ RequestFails
    \/ CleanupAborts \/ ContextDropped
    \/ \E c \in Capture : StartCapture(c) \/ CaptureTask(c)

Spec == Init /\ [][Next]_vars

\* The runtime polls a task that can proceed and drops an aborted one at an
\* await, the node answers once its failures are over, and the guard's owner is
\* dropped after its cleanup.
Fairness ==
    /\ WF_vars(Scanner)
    /\ SF_vars(TaskAborted)
    /\ WF_vars(ContextDropped)
    /\ \A c \in Capture : WF_vars(CaptureTask(c))

FairSpec == Spec /\ Fairness

-----------------------------------------------------------------------------
(* Properties                                                              *)

SentBlocks == {sent[i] : i \in DOMAIN sent}

CaptureRecord == [state : {"idle", "running", "done"}, from : Nat, next : Nat,
                  observed : Nat, skipped : Nat]

\* The types of the variables.
TypeOK ==
    /\ stored \subseteq Block /\ tip \in Block
    /\ failures \in 0..MaxFailures
    /\ pc \in {"info", "walk", "fetch", "ingest", "sleep", "failed", "stopped"}
    /\ spawned \in BOOLEAN /\ abortAsked \in BOOLEAN /\ held \in BOOLEAN
    /\ cursor \in Block /\ remaining \in Nat
    /\ stack \in Seq(Block) /\ sent \in Seq(Block)
    /\ seen \subseteq Block
    /\ total \in Nat
    /\ cap \in [Capture -> CaptureRecord]

\* No block is ingested twice, however often the scanner walks over it: not
\* after a failed catch-up, not after a reorganisation back to an old branch
\* (the seen set of catch_up).
IngestedOnce == \A i, j \in DOMAIN sent : sent[i] = sent[j] => i = j

\* The types of the variables, and that no block is ingested twice.
Safety == TypeOK /\ IngestedOnce

\* A block is ingested only after its parent, on every branch; the genesis
\* block itself is never ingested (the stack of catch_up).
ParentsFirst ==
    \A i \in DOMAIN sent :
        /\ sent[i] # Genesis
        /\ Parent[sent[i]] = Genesis \/ \E j \in 1..(i - 1) : sent[j] = Parent[sent[i]]

\* What the scanner will not look at again is what it ingested, and genesis:
\* no block is marked as seen without reaching the subscribers, even when a
\* catch-up fails half way.
SeenIsIngested == seen \ {Genesis} = SentBlocks

\* The counter that BlockStats shows is the number of transactions in the
\* blocks that were ingested, each block counted once.
StatsExact ==
    total = MapThenSumSet(LAMBDA b : Len(BlockTxs[b]), SentBlocks)

\* The positions a capture has gone through.
Passed(c) == cap[c].from .. (cap[c].next - 1)

\* A capture that never lagged has counted exactly the tracked transactions of
\* the blocks sent since it subscribed; one that lagged never counts more than
\* those, and goes on with what the channel still holds: its task has ended only
\* if it went through everything that was sent (spawn_tx_inclusion_capture).
CaptureExact ==
    \A c \in Capture :
        LET due == MapThenSumSet(LAMBDA p : CapturedTxs(c, sent[p]), Passed(c))
        IN /\ cap[c].observed <= due
           /\ cap[c].skipped = 0 => cap[c].observed = due
           /\ cap[c].state = "done" => cap[c].next = Len(sent) + 1

\* The scanner cannot go on: it was aborted or the feed never started.
Over == abortAsked \/ pc = "failed"

\* A tip that the node keeps is seen by the scanner, so its blocks reach the
\* subscribers, although requests fail and the tip moves while it walks.
TipObserved ==
    \A b \in Block : (tip = b) ~> (b \in seen \/ tip # b \/ Over)

\* After the cleanup every capture task comes to its end, instead of waiting
\* for ever on a channel that nobody writes to.
CapturesEnd ==
    \A c \in Capture : (abortAsked /\ cap[c].state = "running") ~> (cap[c].state = "done")

=============================================================================
