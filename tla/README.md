# Verification of C_libraries

TLA+ modules, TLC runs and TLAPS proofs for the C code of this repository: a
poll server, a thread pool, a linked list of accounts, and stand-alone data
structures. `PROJECT.json` maps every definition to the lines it models; this
file says what the parts are, how they were modelled and what is known of them.

## 1. The system

`src/library/` is the version that its makefile builds (`main.c`,
`network_utils.c`, `linked_list.c`, `processing.c`). `threadpool.c` lies beside
them and is not linked there: `main.c:35,42` hold the calls of `tpool_create`
and `tpool_destroy` as comments. The copies in `src/` itself are older and call
the pool (`main.c:49,56`, `processing.c:21-63`), but miss headers and functions.
`hashtable.c`, `balanced_tree.c`, `binary.c` and `mergesort.c` are programs of
their own.

| part | state | operations | correct when |
|---|---|---|---|
| thread pool, `threadpool.c` | linked list of jobs, `working_cnt`, `thread_cnt`, `stop`, a mutex, two conditions | create, add work, wait, destroy; the worker's loop | each job runs once, in order, or is discarded by destroy; counters exact; no node freed twice or used after; nobody sleeps over work; wait and destroy return |
| server loop, `network_utils.c`, `main.c` | `fds`, `client_sockets`, `total_connections`, `g_handler_value` | poll, accept, serve, reap, time out, clean up | both tables agree; count exact; never blocks in `recv`; dead and silent clients leave; SIGINT ends it |
| account and map list, `linked_list.c` | `head`, `tail`, `nodecount`, nodes | insert at the tail, two searches, three deletions, destroy | one list of all nodes; no freed node touched; acts as a sequence |
| request dispatch, `processing.c` | none of its own | validate by opcode, answer or make a job | one answer or one job per request |
| hash table, `hashtable.c` | buckets, count, capacity | insert (grow and merge), delete, search | a bag of entries, whatever the capacity |
| AVL tree, `balanced_tree.c`; search tree, `binary.c` | nodes with heights | insert, delete, rotate, traverse | a set in order; balanced |
| merge sort, `mergesort.c` | the array | sort, merge | sorted permutation |

How they interact. `endless()` calls `server()`, whose thread polls, accepts and
hands each received buffer to `process_data`. In `src/` that function makes a
job with a pointer to the client's slot and gives it to the pool, whose workers
would use the two lists; on SIGINT the handler sets `g_handler_value`, `server()`
returns, the pool is destroyed and `cleanup_sockets` closes what is left. The
server and the pool share no state but the jobs and the slots they point to.

What is hard here: threads that sleep on two conditions with spurious wakeups
and signals that wake one of several; a destruction that races workers and frees
the list they take from; a poll snapshot that is used while the tables change;
descriptor numbers that the kernel gives out again; a counter kept by three
functions; failing `accept`, `calloc`, `poll` and `pthread_create`; a signal at
any moment; lists whose branches trust a counter; a table that grows while it
is walked. `PROJECT.json` lists each as a hazard at its line.

## 2. The modules

### ThreadPool, refining JobService

Every field of the pool is read and written under `work_mutex`, so a critical
section is one action. `pthread_cond_wait` ends one (the thread joins `work_cond`
or `working_cond`) and a wakeup starts the next. tpool_destroy's loop over the
list is the exception: one step per node freed, with the mutex kept
(`MutexFree`), so that the walk itself is checked. A work node is an address that
`malloc` gives and `free` takes back: addresses are reused, submissions are not
bounded. `fifo` is a history variable, the list as a sequence; no guard reads it.

`CreateThread` may fail for the threads in `Unstartable`. `WorkerSleep`,
`WorkerTake`, `WorkerRun`, `WorkerFinish` and `WorkerExit` are the sections of
`tpool_worker`; `AddWork`, `WaitCall`/`WaitBlock`/`WaitReturn` and
`DestroyCall`/`DestroyFreeNode`/`DestroyStop`/`DestroyFree` the public functions;
`SpuriousWake` is POSIX's. Left out: the NULL arguments and failed mallocs that
make a call return at once without a change, and the detached threads' own end.

`JobService` is the promise: accepted jobs are started once each in the order of
submission and completed; closing discards what was not started and ends only
when nothing runs. The refinement maps `fifo` to the queue and the jobs that
`func` is running to the running set.

### Server

One thread and its environment. Slot i stands for `client_sockets[i]` (its
`socket_fd`, and `silent`, the time since `last_message_time`) and `fds[i]`
(`poll_fd`, and `pollin` for its revents). `sock`, `unread`, `listening` and
`backlog` are the kernel's. `reset_socket` clears the client slot and leaves the
old number in `fds`, as in the code, and `accept` gives out the lowest closed
descriptor, so a number in `fds` may be given out again. One turn of the poll
loop takes the steps `Poll`, `Accept` (at most one), one step per slot and
`CheckForTimeouts`; SIGINT is seen where the code looks. With `Faults`, `accept`,
`poll` and `calloc` may fail. What a request says is not looked at; received
bytes are counted in pieces. Creating the listening socket is before Init.

### LinkedList, refining AccountList

`heap` maps the allocated nodes to their fields, and only those: reading a freed
node is an evaluation error, so a run that ends without one has also shown that
no loop does. A walking call takes one step per node. `deletetarget` calls
`deletelast` when it has found the tail, and that walks from the head again. The
list has no lock, and one thread uses it in either version of the server
(`tpool_create(1)`), so calls do not interleave. Names and passwords are values;
the `strncpy` of a given length is taken to fit the 64 bytes. `AccountList` is a
sequence of accounts.

### HashMap with HashFunction, refining EntryBag

`Hash` is a constant operator of HashMap: the proofs hold for any function into
the buckets, and the runs take `hashFunction`, translated with its factors. The
merge is one step per entry, since each of its insertions tests the load itself;
`nested` marks the new table growing, whose result the code would throw away. A
key is a string and the address it was given at, since `search` compares
addresses and `delete` strings. `EntryBag` is a bag of entries.

### Dispatch

What one received buffer is worth: the three validations of `process_data` as
predicates. A buffer is a sequence of cells, a 16-bit length one cell and the
session id none; beyond its end it reads as zeros, since the code takes a calloc'd
buffer and throws the received length away. The names are copied into a struct
where the fields lie next to each other and are read back as C strings, so that
`strlen` may run on from a name that fills its field. `MAX_NAME_SIZE` tells the
library's version from the one in `src/`. `ExactFor` is the reference: which
buffers are let through, said from the buffer alone.

### Requests, composing Dispatch and JobService

A request's way through the server of `src/`: the poll loop of
`src/network_utils.c`, `process_data` of `src/processing.c` on whatever the recv
took, the pool with its one worker, and the end of `endless()`. JobService takes
the place of the pool, which ThreadPool was shown to implement; where a job
starts, the one worker must be free. A descriptor is named by its connection,
which `TablesAgree` of Server allows: a slot and its entry of `fds` never name
different connections. `heard`, `answers`, `ignored` and `discarded` are history.
The functions that jobs run (`process_login_command` and the others) are not in the
repository: a job is taken to answer once through `command->client`, with its mutex
as `send_error` does, and a login may put a free account into a slot that has none.
Init lets a list be missing: `endless()` starts the server even then and counts on
`handler_value`. A recv takes one or more of the pieces that wait. `check_for_timeouts`
takes a step per slot, because a worker may run, and log in or answer, between two. Polite clients
send whole requests, the next after the answer; the others send pieces at will.
After the poll loop nothing reads what clients do, so their steps end with it.
Left out: a failing `accept`, `calloc` or `tpool_add_work`, and `poll` failing for any
reason but SIGINT.

### TreeHeap, BinaryTree, AVLTree, composed in Trees

Nodes are a map from addresses to records; a node that is freed leaves the map, so
touching it stops TLC, and `malloc` gives out any address that is not in use. The
recursive functions run one call at a time: `frames` is the stack of the calls that
wait, each with its node and the link (`left` or `right`) that will take the result;
`node` is what the running call has on the way down and what it returns on the way up.
So `Smaller` and `Greater` go down, `NewLeaf`, `KeyIsThere`, `KeyIsNotThere` and
`Unlink` are the ends of the recursion, and `InsertReturns`, `InsertnodeReturns` and
`DeletenodeReturns` store a result and, in the AVL tree, balance: one step does all that
the code does between two calls, with its order of reads and writes (a rotation reads
heights after the child's). A deletion of a node with two children is
`CallMinValuenode`, the steps of `minValuenode` and `DeleteSuccessor`, which copies the
key and goes on below as the code does. deleteTree, which both programs share, takes
one step per call, because it frees what it stands on. `insert` in `binary.c` is called
with its result dropped but for the first time: `FirstRoot`. The property measures the
tree with recursive functions (`Subtrees`, `Depths`) and not with the model's links.

### MergeSort

merge_sort with its stack of calls, and merge one element at a time. The three
loops of merge share `TakeLeft` and `TakeRight`: `LeftFirst` says which half is next,
also when the other is used up. Elements carry where they came from, which no guard
reads and the properties compare.

### MCPrograms

The sequential parts share a run: the first state chooses a program, so that their
sizes add up. The trees are `Trees`; `Judge` is one verdict on a buffer.

## 3. The runs

| run | bounds | what it shows |
|---|---|---|
| pool_safety | 3 workers, 2 callers, 4 addresses, symmetry | counters exact, list and ownership right, no lost wakeup, quiet destruction, wait means idle, refinement of JobService |
| pool_live | 3 workers, 1 caller, 3 addresses | wait and destroy return, no accepted job is forgotten |
| pool_wait_drains | 2, 1, 2 | violation: tpool_wait returns with work queued |
| pool_create_delivers | 2, 1, 2, one thread cannot start | violation: the pool lacks a thread it counts |
| server_safety | 4 connections allowed, 3 slots, faults on | tables, count, recv, orphan, no wrongful close |
| server_live | 3 connections allowed, 2 slots, no faults | left clients are reaped, silent ones booted, SIGINT ends it |
| server_accept | 3 connections allowed | violation: an accepted connection without a slot |
| list | 3 nodes, 2 names, 2 passwords | one list, safe cursors, calls return, refinement of AccountList |
| hash | 3 keys (2 collide), 2 addresses, 2 to 8 buckets, symmetry | growth loses nothing, entries reachable, load, no nested growth, refinement of EntryBag |
| programs | AVL: 10 keys and addresses, deleteTree up to 5 nodes; search tree: 5 keys; sort: 5 elements of 3 keys; requests: fields of 2, up to 5 bytes of 3 kinds | trees are balanced sets with exact memory; the sort is in bounds, exact and stable; the checks let the right buffers through |
| requests | 2 slots, 3 connections, 1 account, 2 requests, 1 pair of pieces | one fate per buffer, answers, shared data, accounts, each polite client is answered |
| requests_partial | the same | violation: a request in two pieces is judged twice |

Why the bounds are enough. Three workers show one running, one sleeping and one
leaving at once; two callers show a wait beside a submission or a destruction;
four addresses make a list with a first, an inner and a last node and one that
is being run. Three slots show a freed one between taken ones and, with the
fourth connection, the one without a slot. Three nodes show head, inside and
tail. Capacity 8 shows two growths, and the two colliding keys part only at the
second one. Ten keys give an AVL tree of four levels, where an insertion or a deletion
far down rotates, singly and doubly, at the root or below it, and a successor that is
not its parent's right child; for more keys there is the proof. Five elements make
halves of unequal length on two levels, three keys an equal pair and one between. Fields of two bytes with a library limit of one and
the older limit of two have every relation of length, limit and field, and five
bytes are more than both names; the bytes are a NUL, a letter and one above 127.
Two slots and three connections show a slot that changes hands while a job points
to it, one free slot beside a taken one, and an accepted connection without a slot.
The VIEW of `programs` leaves the addresses of a tree's nodes out between calls: no
program compares them, and trees with the same shape, keys, heights and number of nodes
go on alike, whichever addresses `malloc` chooses. While a call runs, the view is the
whole state. `MaxBacklog`, `MaxUnread`, `MaxCapacity`, `MaxFreed` and `MaxSends` bound
the environment: pending connections, unread pieces of a socket, the growth, the
trees that are freed step by step, and what a client sends. `Never` in Server
stands for any silence beyond the limit. `hash` has one value, since the address
tells entries apart.

Fairness. The pool's threads are weakly fair per thread (the scheduler runs what
can run, and jobs return); callers owe no call and spurious wakeups may never
come. The server's thread is weakly fair and time passes; clients and signals owe
nothing. In Requests the server's thread and the worker are weakly fair, each as a
whole: whichever step is its next is taken. A call on the list runs on once begun. Weak fairness is enough because a
critical section is one action: a thread that may enter one stays able to, but for
the single walk of tpool_destroy, which ends. This takes the mutex to be handed out
so that no thread starves.

Each property has a mutant in PROJECT.json: a definition whose comment begins
with "Mutated form of", a mistake that the property would catch. `TimeoutsUncounted`
is the code of the older `src/network_utils.c`, which forgets to count down.

## 4. What is proved

For every value of the constants, from their named assumptions only (finite non-empty
workers; `NULL` not an address; `CONN_MAX >= 2`, a natural time limit, a positive
listening descriptor, natural bounds; finite nodes, none of them `NULL`; a hash
function into the buckets; for the trees int keys and finite addresses, none of them
`NULL`; an array that is not empty, of ints; a limit on names that is no longer than
their field, which has a byte or more; for Requests `CONN_MAX >= 2`, requests and
pieces that are sequences of bytes, and a `None` that is no connection and no
account).

* **ThreadPoolProofs**: TypeOK, CountersExact, Lifecycle, ListShape, Ownership,
  NoSleeperMissesWork, DestroyedQuiescent, WaitMeansIdle, NoStrandedWaiter, and
  ImplementsJobService. The invariant `IInv` joins the state predicates, since none
  is inductive alone: Ownership needs the list's shape to know which node a take
  removes, the counters need that a worker leaves only after `stop`, and the quiet
  destruction needs that `thread_cnt = 0` means that everyone left. The
  refinement is proved step by step from `IInv`.
* **ServerProofs**: TypeOK, TablesAgree, CountExact, NeverBlocksInRecv,
  AtMostOneOrphan, NoWrongfulClose. The strengthening is `Pairing`: slot i only
  ever holds descriptor `ServerFd + i`, because the lowest closed descriptor and the
  lowest free slot go together. That explains why the stale numbers that
  `reset_socket` leaves in `fds` do no harm, and it is a fact of this kernel rule
  only: a descriptor opened elsewhere in the process would break it. `Snapshot` says
  that what poll reported stays true until the loop reaches it.
* **LinkedListProofs**: TypeOK, WellLinked, CursorSafe, for lists of any length.
  `Chain` is the list without its struct; the lemmas `LinkLast`, `UnchainFirst` and
  `Splice` are the three ways to relink it; `p_prev` is NULL outside deletetarget.
  ImplementsAccountList comes after these: the abstract list is `order` with the
  names and passwords of its nodes. Inserting and removing a node in `heap` must then
  be appending to and removing from that sequence, and a call that searches must have
  passed only nodes that do not fit, or it would not find the first (`ScanInv`);
  deletetarget hands over to deletelast, which removes the tail, only when the tail is
  the first that fits. A walking step is a stutter.
* **HashMapProofs**: TypeOK, Reachable, LoadBounded, from the load of both
  tables: the one in use has room between calls, the new one as long as the merge
  goes on. MergeNeverGrows needs a count: the entries copied and those still to copy
  are together no more than the old table has counted (`Counted`; deletions only
  make them fewer), and that many do not fill a table of twice the buckets.
  ImplementsEntryBag sharpens that count to one for each entry: `Kept` says that while
  a table grows, the copies of an entry in the new table and its places still to be
  copied are as many as it had in the old one. The bag is defined by counting places,
  so most of the lemmas say how an insertion, a deletion and a step of the merge change
  the set of an entry's places; every step of the merge is a stutter.
* **ProgramsProofs**: SortSound, for arrays of any length and any ints: indices in
  bounds, halves sorted before they are merged, nothing lost or doubled by a merge, and
  a sorted, stable permutation in the end. `SortInv` has four parts: `Stack` (each call
  waits for a half that the calls above it stay within), `Segments` (the half a call
  has not reached is as it was, the other is sorted and made of its own elements),
  `Halves` (the same of the copies) and `Written` (what the merge has written is in
  order, before all that waits, and made of what was taken). And ChecksExact, for fields
  of any size and any bytes: DispatchProofs once for each version's limit on names.
* **DispatchProofs**: `ExactFor` of every buffer, the predicate that ChecksExact of
  `programs` takes for the two versions, and the run's buffers are only some of these.
  It is a fact about operators, not about states: strlen's first NUL exists because
  the struct ends in one (`FirstNul`, from the well-foundedness of inclusion on finite
  sets, which takes no operator), a name is good exactly if its characters are
  printable and a NUL follows (`GoodMeans`), and where that NUL is looked for depends
  on what lies behind the field (`BothGoodMeans`).
* **RequestsProofs**: SharedDataAlive, AnswersReachAsker, AccountsReleased and
  Accounted, for any connections, requests and number of sends. The invariant `IInv`
  is `Ends` (the order in which pool, lists and clients go, and that nothing is ever
  read with a list missing), `Snapshot` (a slot that poll reported and the loop has
  not reached is taken), `Owned` (the slot a job points to is its asker's until the
  server has closed the asker; with the step that writes an answer this gives
  AnswersReachAsker), `Held` (one slot for an account that is logged in) and `Fated`:
  buffers that were received have a fate (`NotLost`), no two (`NotTwice`, `Apart`), and
  no other buffer has one (`FatesOfHeard`). The sizes in Accounted and
  AccountsReleased then follow from sets of at most one member.

* **TreeProofs**: TreesSound, for any int keys, any addresses and any sequence of calls.
  The heap alone is no tree while a call runs: the link that the last waiting call will
  store is out of date. So the invariant `IInv` speaks of `LinksL` and `LinksR`, the
  links with the running call's pointer in that place. Its parts are `TreeKept` (these
  links are one tree of all nodes: there is an S, the nodes below each node, that is the
  disjoint union of what is below its links; no link leads out; each waiting call waits
  in the link to the next one's node), `KeysKept` (the order, and the keys of the nodes
  are the set of members, but for the key on its way in or out; after `DeleteSuccessor`
  one key is there twice, and only the way that the deletion has still to go leads to
  the second), `HeightsKept` (every node's height is right and balanced but for the node of
  the last waiting call, whose height is right for the subtree as it was: the result is
  at most one higher, and then on the key's side, or one lower) and `Freeing` (what
  deleteTree has freed is gone, each of its calls below its caller, and all that is
  allocated below the first). A property that needs induction over a tree takes, by
  well-foundedness of inclusion, a node that is deepest among those for which it fails
  (`Deepest`). The steps come from four changes of a tree: a leaf is grafted
  (`GraftTree`), a leaf is pruned (`PruneTree`), a node absorbs its only child
  (`AbsorbTree`), and a node turns around its child (`TurnTree`); each keeps the tree, the
  order and, for a turn, makes the heights right (`TurnHeights`). The mirrored rotation is
  the same lemma with left and right exchanged. Heights are compared as the code compares
  them: `InsertTurns` says that the key tells which grandchild is higher, `DeleteTurns`
  that the child's balance does. At last `SubtreesAre` and `DepthsAre` say that the
  recursive functions of the property have no other value than S and the heights.

Only model-checked: all liveness (WaitReturns, DestroyReturns, ImplementsFairJobService,
HangUpReaped, SilentIsBooted, ShutsDown, CallsReturn, EachAnswered), since fairness and
ENABLED are beyond the prover.

## 5. Disagreements found

* `threadpool.c:260`: tpool_wait looks at `working_cnt` only, so it returns with
  work queued that no worker took yet; its comment asks for that check.
* `threadpool.c:172`: tpool_create ignores pthread_create's result and never fails
  as line 141 promises. tpool_destroy would then wait for ever.
* `network_utils.c:322`: CONN_MAX connections are accepted into CONN_MAX - 1 slots.
* `processing.c:250` (`library/processing.c:259`): a recv is taken for a request. The
  pieces of one are judged one by one, where `official_tests/README.md:98` promises that
  partial messages are put together again and `edge_test.py:78` expects it.

Noted without a run of its own: with two callers in tpool_wait, the signal at
`threadpool.c:127` wakes one and may leave the other (NoStrandedWaiter and WaitReturns
are stated for a lone caller, and no comment says what two may expect);
`hashtable.c:238` compares addresses, so search finds no equal key at another address,
where delete compares the strings; `hashtable.c:214` leaves `numOfElements`, the current
number in line 21, as it is, so inserting and deleting doubles the table again and
again; the merge reverses each bucket, so that of two entries with one key the older is found after
growing; a client whose data came after poll is booted unread by a timeout in the same
turn, which NoWrongfulClose takes as rightful; `linked_list.c:208` documents -1 and 0
where 0 and 1 are returned; `linked_list.c:244,274` promise a username and return a
number; the table leaves the codes of negative chars and a capacity of 0 undefined.

Also noted, from the request path. Of two requests that one recv takes together the
second is lost without an answer. The official tests register and log in with
passwords of 11, 12 and 19 characters (`user_test.py:366,369,456`), which the library
refuses: its `MAX_NAME_SIZE` is 10 (`library/processing.h:20`), and the copy in `src/`
allows 64. An answer and a login may go to whoever has the asker's slot by then, or to
descriptor 0: AnswersReachAsker states what holds instead, that the server has closed
the asker before. An account may so stay logged in by a slot without a client until
the slot's next client leaves (AccountsReleased). In `src/`, with `MAX_NAME_SIZE`
equal to the field, a user name of 64 characters is refused if a password follows,
because the name has no NUL. `src/network_utils.c:173-178` leaves timed out clients
counted. In the same file the `server_fd` of line 298 hides the global one, so
`cleanup_sockets` (line 414) does not close the listening socket.

## 6. Not modelled, and the plan

Every part with logic of its own is modelled. What is left, and why:

* `src/linked_list.c` is the library's list, but for deletions that return a pointer
  to the username in the node they have just freed; LinkedList stands for both.
* `delete_map`, `load_file`, `load_accounts` and the functions that jobs run are not in
  the repository.
* `is_ascii_no_punct` is called by nobody.
* Printing, the demonstrations in the `main` functions, creating sockets (before the
  model's Init), the test client in Python and the load test (the environment of
  Server and Requests stands for them), the lint script.

Every safety property of the passing runs is proved, for every value of the
constants; liveness is only model-checked (section 4). What the proofs assume of C is
in the models: ints and heights that do not overflow (a tree of height 2^31 has no room
in any memory) and a `malloc` that does not fail, whose result neither tree program
tests.
