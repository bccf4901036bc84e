# A verification of the RadixTree database

`src/src` is a single-threaded key/value store: a B+ tree on fixed-size pages,
a buffer manager and a storage manager below it, and above it an adaptive radix
tree that serves as a cache of direct pointers into the buffer.  This directory
holds a TLA+ model of it, configurations of TLC that check the model on small
instances, and proofs that TLAPS checks for every instance.

    main, Workload, RunConfig ..           clients
            |
       DataManager                         cache first, B+ tree otherwise
        |        |
        |     RadixTree (cache)  --------- frame pointers, fix/unfix
        |        ^                               |
        |        | insert, delete_reference,     |
        |        | update_range                  |
       BPlusTree ------------------------- BufferManager
     (b_nodes, TreeOperations)  request,       |
                                create, fix,   | save, load, delete,
                                unfix, delete  | get_unused_page_id
                                          StorageManager -- data.bin, bitmap.bin

## 1. Inventory

| part | state | operations | what makes it correct |
|---|---|---|---|
| `data/storage_manager` | `free_space_map`, `next_free_space`, `current_page_count`, the data file | `save_page`, `load_page`, `delete_page`, `get_unused_page_id` | an id is in use by one owner; a page reads back as it was saved, whatever else was saved around it; the cached next free id is the least free one |
| `data/buffer_manager` | `page_id_map`, the frames with `fix_count`, `marked`, `dirty`, `current_buffer_size` | `request_page`, `create_new_page`, `fix_page`, `unfix_page`, `mark_dirty`, `delete_page`, `destroy`; `evict_page` and `fetch_page_from_disk` inside | no write is lost, no frame is handed out twice, a fixed page stays where it is, a frame's header tells whose it is, eviction ends |
| `bplus_tree/b_nodes` | one node in the 32+ bytes of a page | binary search, insert, delete, exchange, the capacity tests | results as of sorted sequences; never beyond the arrays |
| `bplus_tree/bplus_tree` | pages in the buffer, `root_id` | `insert`, `delete_value`, `get_value`, `update`, `scan` | a map from keys to values; a balanced, ordered tree without lost or shared pages; every fix has its unfix; every written page becomes dirty; every call returns |
| `utils/tree_operations` | none | `scan`, the validations | the entries from the key on, in order |
| `radix_tree/r_nodes` | arrays of digits and pointers, of four kinds | `insert`, `delete_reference`, `get_next_page` | one pointer for each digit, whatever the order of its slots |
| `radix_tree/radix_tree` | linked nodes of 4/16/48/256 children with compressed prefixes, `current_size`, a ring of 256 inserted keys | `insert`, `delete_reference`, `update_range`, `get_value`, `update`, `delete_value`, `scan`, `destroy`, `valdidate` | never answers for a key with anything but the B+ tree's value; its size is accounted to the byte; no node leaks or is used after it is freed |
| `data/data_manager` | the two trees | `insert`, `get_value`, `update`, `delete_value`, `scan` | the map again, with or without a cache |
| `run_suite/workload` | the records and the sets of performed operations | `initialize`, `run`, `validate` | its own validation reports no fault |
| run configurations, `workloads_script` | a database each, on the same path | construction, `execute`, end | their database is theirs alone |
| `main`, `configuration`, `utils/logger` | `configuration`, the globals `run` and `workload` | three passes over the command line, execution, the end of the globals | what is executed has the settings asked for; every database is destroyed once |
| `debug/debugger` | none | `contains_key`, `are_all_child_ids_unique`, printing | says what is so |
| `run_suite/benchmark`, `utils/file`, `utils/time` | none | timing, names of files | - |

How the parts interact.  There is one thread and no callback; a call of the
DataManager runs to its end.  What is hard is therefore not interleaving of
threads but that one call is many steps over shared, mutable, evictable state:

* **Eviction happens inside every request for a page** and picks its victim at
  random: which pages are in memory, in which order pages reach the file, and
  which id is the next free one vary from run to run.
* **Raw pointers into frames** are held across calls, by the B+ tree while a page
  is fixed and by the radix tree even while it is not.
* **fix and unfix are spread** over recursion and early returns, as are the
  dirty flags.
* **Rebalancing** changes up to three pages; separators are replaced on the way
  down, before the level below is restored.
* **The cache is told of moves** of entries only where the code remembers to.

* **Pointers between the nodes of the cache** must be set anew in the parent, the
  root and the running call whenever a node is copied to another size, split or
  collapsed.
* **Several databases share one path**: the command line may make more than one, and
  opening and destroying them works on whatever file the path leads to.

There are no timeouts, no messages and no recovery: the files are removed at
start-up, so a crash loses the database by design.

## 2. Plan

The modules, in the order they were written; the last two are not.  "Spec" is what a part
promises and "impl" the module shown to keep the promise.

| # | module | kind | composes | state |
|---|---|---|---|---|
| 1 | `PageFile` | spec of the storage manager | - | done |
| 2 | `StorageManager` | impl, bitmap and file with holes | - | done, proved |
| 3 | `PageStore` | spec of the buffer manager | - | done |
| 4 | `BufferManager` | impl, frames and eviction | EXTENDS `StorageManager` | done, proved |
| 5 | `KVStore`, `Calls` | spec of the database | - | done |
| 6 | `BNodes` | operators on B+ tree nodes | - | done, proved |
| 7 | `BPlusTree` | impl, one action per request of a page | EXTENDS `BNodes`, stands on the promise of `PageStore` | done, proved |
| 8 | `TreeChecks` | the program's own checks of the tree | EXTENDS `BPlusTree` | done, proved |
| 9 | `Workload` | client of the tree | EXTENDS `TreeChecks` | done, proved |
| 10 | `RKeys`, `RNodes`, `RadixTree` | operators on keys, nodes and trees as values | - | done |
| 11 | `ReferenceCache`, `RadixTreeSpec` | specs of the cache: a set of references, a tree of values | `RadixTreeSpec` EXTENDS `RadixTree` | done |
| 12 | `RArrays` | the arrays of the four node types | EXTENDS `RKeys` | done, proved |
| 13 | `RadixHeap`, `MCRadixHeap` | impl of both specs: the cache in memory | EXTENDS `RArrays`, INSTANCE 11 | done, its invariants proved |
| 14 | `DataManager` | B+ tree and cache | EXTENDS `BPlusTree`, INSTANCE `RadixTree` | done |
| 15 | `Session`, `MCSession` | main and the owners of databases | - | done, proved |
| 16 | the arrays of `b_nodes.h`, with stale slots, against `BNodes` | impl | - | planned |
| 17 | B+ tree on frames: `PageStore` replaced by `BufferManager` | composition | 4, 7 | planned |

Theorem left to prove: the B+ tree composed with any `ReferenceCache` that never answers
for another key is a map.  It takes a non-recursive abstraction of the cache; the recursive
operators are confined to `RadixTree`, `DataManager` and `MCRadixHeap`.

## 3. The modules and the code

**StorageManager** (`storage_manager.cc`).  The bitset is the set of its one bits
and its size, the file a function from positions to pages; a page is the id in
its header and some data.  `SavePage` is `save_page` with its growing bitmap, the
loop that fills a hole with copies of the page, and the search for the next free
id; `GetUnusedPageId` and `DeletePageId` are the other two, `LoadFails` and
`LoadedPage` what `load_page` does.  `delete_page` is called by the unit tests
only: the call in `BufferManager::delete_page` is commented out, so ids are never
used twice by the program.

**BufferManager** (`buffer_manager.cc`) extends it with the frames.  A frame is
its address.  A call that finds the buffer full is a loop of actions: each random
pick of `evict_page` is `EvictUnmark` or `EvictTake` (a pick of a fixed frame
changes nothing), then `FetchPage` or `FillNewPage` ends the call.  The client is
the contract the trees keep: it fixes a page once at a time, writes through its
pointer, reports what it wrote, deletes only what it does not hold, and may try
any pointer it ever had with any id (`FixRemembered`, which is what an `RFrame` of
the radix tree does).

**BNodes** (`b_nodes.h`) has the methods of inner and outer nodes as operators on
sequences; the arrays below `current_index`.

**BPlusTree** (`bplus_tree.h`, `tree_operations.h`).  All recursive calls of the
code are tail calls, so the state of a call is its operation, where it is (`pc`)
and the pages it passes on (`node`, `child`, `other`).  An action is the code from
one request of a page to the next.  The effect of an action on the pages, their
fix counts and their dirty marks is stated in one place, `Effect`.  Where the code
tests the same page twice in a row (the left sibling in `substitute` and in
`merge`), the second test is a guard that TLC shows never to block: a stuck call
would be a deadlock.

**TreeChecks** (`validate` of `bplus_tree.h`, `debugger.cc`) has the program's own
checks of a tree as operators of the pages they walk over, with what they leave
out: `smaller_or_equal` and `bigger` ask the first child again for each child, the
order of keys is looked at within each leaf only, `contains_key` takes a separator
for a key.

**Workload** (`workload.h`) drives the tree as the program does, with `initialize`
(or the script's load in descending order), `run` and `validate`.

**RKeys**, **RNodes** and **RadixTree** (`r_nodes.h`, `radix_tree.h`).  A tree is a
value; the recursive methods are recursive operators from a node to the node that
takes its place and the bytes gained or freed.  `insert_recursive` grows a full
child before it knows whether it inserts there, and a full root by starting again:
so do `InsertBelow` and `Insert`.  The ring of 256 keys is a queue.  `Transform`
makes unsigned keys in the order of the signed ones, modulo the number of keys.
**RadixTreeSpec** calls it with any keys and pages.

**RArrays** has the node types as they are stored: two with digits and pointers in
the order they came, where a deletion moves the last entry to the hole; one with
an index; one with a pointer per digit.  **RadixHeap** links them by addresses.
`Malloc` takes the least free address, so that what was freed is used again at
once, and a use after free would be seen or be an error of TLC.  An action is one
invocation of a recursive method, or one round of the loop of `update_range` and of
`destroy`, because nodes are fixed from one to the next.  Fix counts are those of
the header.  A root that grows is not fixed, and one that is replaced not unfixed,
as in the code.

**Session** (`main.cc`, `configuration.h`, `logger.h`, the constructors and
destructors of `run_config.h`, `workload.h`, `workloads_script.h` and
`data_manager.h`).  The state is the command line and where its three passes have
got to, the configuration, the globals, and the databases ever opened with the
files ever created.  `Opened` removes the file at the path and makes another one,
`Destroyed` saves and then truncates what the path leads to.  What a database does
between the two is that pages are written to its file.

**DataManager** (`data_manager.h`, and the calls of `cache->` in `bplus_tree.h` and
`tree_operations.h`).  The actions of `BPlusTree` are taken unchanged, each with
the call of the cache it makes; the calls on the cache that work on a page
directly (`get_value`, `update`, `delete_value`, `scan`) are actions of their own.
Whether the frame of a reference still holds its page is decided by the buffer:
with `Evictions`, any reference may be stale at any time.

## 4. The runs

| run | what it asks | bounds | states |
|---|---|---|---|
| `StorageManager` | do bitmap and file make a `PageFile`; does a saved page read back | 4 ids, 2 contents, bitmap grows by 2 | 9 k |
| `BufferManager` | six invariants of the pool, the refinement of `PageStore`, and that eviction ends | 2 frames, 3 pages, 2 contents | 280 k |
| `BPlusTree` | shape, order, separators, leaf chain, use of the buffer, the program's own checks; that calls return | 9 keys, 1 value, N = 4 | 380 k |
| `Workload` | the tree as a map, the program's own use and validation, odd nodes, two inner levels | 14 records loaded in either order, 3 operations, N = 5 | 243 k |
| `RadixHeap` | the cache in memory: arrays, links, fixes, account; that it is a tree of values and a set of references | up to 10 keys loaded, 3 calls, 4 digits of 6, nodes of 2, 3, 5 and 6 children, limit 740 bytes | 121 k |
| `DataManager` | tree and cache together | 5 keys of 2 digits, 2 values, evictions, a cache that does not fill up | 370 k |
| `Session` | the command line and the life of databases | 4 arguments of 16, two pages per database, two runs of the script | 2.5 M |
| `ScanAfterDelete`, `LostUpdate`, `DeletedTwice`, `FullCache`, `NarrowedSize` | violations, see below | | |

Why these bounds are enough for what they ask.

* *Storage and buffer.*  The code's bitmap grows by as many bits as a page has
  bytes (rounded up to a multiple of 8) and its files have thousands of pages; nothing depends on the number but the boundary cases of the
  growth, the holes and the end of the file, which an increment of two and three
  or four pages reach in every order.  Two frames suffice for one fixed page and
  one to evict.  The proofs hold for every size.
* *B+ tree.*  N = 4 gives leaves of three and inner nodes of three keys, N = 5
  the odd case, in which `get_split_index` rounds.  Nine keys make a tree in which
  leaves and inner nodes lend and merge; fourteen loaded records make inner nodes
  below the root, and up to three more are inserted.  `MaxPages` is never reached: a
  page that is missing would be an error of TLC, not a disabled action.  Page ids
  are compared only, so that reusing them in the model changes nothing.  The run
  `BPlusTree` has one value, as no decision looks at values; `Workload`, where each
  record has a value of its own, and `DataManager` check that the right one is read
  and written.
* *Radix tree.*  Nodes of 2, 3, 5 and 6 children over 6 digits grow and shrink
  through all types as 4, 16, 48 and 256 over 256 do; four digits make compressed
  prefixes above and between nodes.  The load is a fixed sequence of keys, chosen so
  that leaves grow to the largest type and inner nodes to the third, and that there
  are inner nodes below the root to split, shrink and collapse; it may stop after any of them, and then any three calls follow with some
  of the keys, on another page.  The limit is reached at the end of the load, and
  the ring of one usable slot wraps.  The variable `cache` of `MCRadixHeap` is
  history: what the memory amounted to when the last call had returned.
* *DataManager.*  `RingLength = 1` is a ring that keeps nothing, for a cache
  that never reaches its limit.  The keys differ in their last digit, so that the
  cache never confuses two (`LostUpdate` shows why).  The two values are
  interchangeable, hence the symmetry; both properties are safety.
* *Session.*  Four arguments suffice to give an option twice and two objects, in any
  order.  An int has 4 bits and a `uint64_t` 8.  The sizes asked for in the run `Session`
  fit an int; `NarrowedSize` asks for one that does not.

Deadlock is checked in the runs of both trees: a call that gets stuck is found.
The storage manager and the buffer manager stop where the bounded ids are used up
or after `destroy()`, and the program stops at its end; there it is switched off.

Callers are assumed to insert a key once and to scan from a key that is there
(`Allowed`); both are what the code's comments and assertions ask of them.  A key
that is inserted twice is stored twice by the code (`bplus_tree_test.cc`,
`InsertRepeated`), which no map does.

### Findings

* `ScanAfterDelete`.  `TreeOperations::scan` asserts that its key exists; the
  workload scans records it has deleted.  Without assertions scan returns
  `INT64_MIN` and leaves the leaf fixed for good.
* `LostUpdate`.  `get_page_recursive` does not compare the prefix that path
  compression skips.  For a key that is not cached it finds the leaf of another
  key with the same digits at the nodes on the way; `update` changes nothing there
  and reports success.  `delete_value` does the same.
* `DeletedTwice`.  A delete through the cache leaves the key as a separator.
  Deleting the absent key once more makes `find_biggest` take the last key but
  one of a leaf although the last one is not the key that is deleted; that last
  key is then unreachable.
* `FullCache`.  A cache at its limit turns every `insert` into the removal of its
  oldest key, also those that re-point a reference it has.  The reference stays
  on a page that the key has left, and a delete or update through it is lost.
* `NarrowedSize`.  The run configurations take `radix_tree_size` as an int: a size of
  2 GiB or more becomes another one.  In the run, with ints of 4 bits, `-c -r 1` with
  `--radix_tree_size 12` makes a cache that takes 252 bytes (12 is -4 as an int, and 252
  as an unsigned number of 8 bits), as 2 GiB would become almost 2^64.

What the checks of the program can be relied on for is in `ExchangesAreFound`:
`validate()` finds any two keys that changed places, unless the smaller one is the
separator of a node whose children are inner nodes.  It then sits in the last leaf
below the child on the left of the separator, where `smaller_or_equal` does not look
(`child_ids[0]` in its loop, `bplus_tree.h:921`); TLC shows that such an exchange does
escape when the exception is taken away.

Executing a null pointer, after `-r 3` or `-wz`, is the phase `crash` of `Session`: no
doc or comment promises anything there, so no property is about it.

## 5. Fairness

Safety needs none.  `EvictionEnds` assumes that a call goes on and that the random
picks of `evict_page` reach every entry of the map, again and again: weak
fairness of `EvictUnmark` and `EvictTake` for each entry.  It holds with probability
one for `dist(rd) % current_buffer_size`.  That a frame is unfixed is the client's
part: the contract never fixes all frames, and `AtMostThreeFixed` says that the
B+ tree fixes at most three pages at a time, hence that a `buffer_size` of three
is enough for the tree and that with fewer it may wait forever.  `CallsReturn`
assumes weak fairness of `Step`: there is one thread, and a call runs to its end.

## 6. What is proved

| module | about | theorems |
|---|---|---|
| `StorageManager_proofs` | bitmap and file | `StorageTypeCorrect`, `NextFreeSpaceCorrect`, `SavedPagesReadBack`, `StorageImplementsPageFile` |
| `BufferManager_proofs` | the pool | `TypeCorrect`, `PoolIsConsistent`, `RememberedPointersAreSound`, `FixedPagesStay`, `FetchNeverFails`, `CleanFramesCanBeDropped`, `PoolImplementsPageStore` |
| `Session_proofs` | the command line and the databases | `EveryDatabaseEndsOnce`, `PagesOfTheLivingStay`, `CommandLineIsObeyed` |
| `BTree_proofs` | lemmas on one node, on trees of pages, and on splits, merges, borrowed entries and writes of a leaf | - |
| `BPlusTree_proofs` | every action of the tree, the tree as a map | `TreeIsKept`, `TypeCorrect`, `FixesBalance`, `WritesSaved`, `FewFixed`, `ChainOrdered`, `TreeImplementsMap` |
| `BWalks_proofs` | what walks from the root find, the program's own checks | `OneTree`, `EvenHeight`, `KeysAreFound`, `SeparatorsTight`, `ContainsExactly`, `ValidateIsContent`, `ExchangesFound` |
| `Workload_proofs` | a workload on the tree, to its end | `WorkloadIsValid`, `WorkloadSeesMap`, `WorkloadSaves` |
| `RadixHeap_proofs` | the cache in memory: keys, arrays, cells, calls | `TreeStaysWhole`, `ArraysAlwaysAgree`, `NothingLeaks`, `FixesAreBalanced`, `CacheIsValid` |

The theorems hold for every value of the constants that the assumptions allow.

* `StorageManager`, `BufferManager`: `bitmap_increment` at least 2, any `MaxPageId`, any
  `buffer_size` of at least 1, any contents.
* `BPlusTree`: `N`, the length of a leaf's arrays, above 3 (`NodeSizeAssumption`: the constructors
  assert `max_size > 2`, and an inner node has one key less than a leaf); keys a
  finite set of natural numbers (`KeysAreNumbers`: an `int64_t` has finitely many values,
  and of keys only the order matters); scans of at least one entry; any values;
  any `MaxPages`, which bounds the model's page ids: an insertion that finds none left
  does not take its next step, which safety allows.
* `Workload`: any number of records and operations, any order and mix of them.
  `RecordsAssumption`: the numbers of the records are keys and values that the tree takes, and
  so is the length of the workload's scans.
* `RadixHeap`: any base and number of digits of a key, any keys, pages, size limit and ring of
  addresses, any sizes of the cells in bytes (`RKeysAssumption`, `RArraysAssumption`).  The four node
  types have increasing capacities, the largest has room for every digit, and the smallest has room for two
  children: the code makes a node of that type for two children and inserts them without looking.
* `Session`: any options, any command line.  `CommandLineIsObeyed` has the condition
  that the sizes given fit an int, without which it is false (`NarrowedSize`).

*Storage manager.*  The inductive invariant `StorageInv` says that bit 0 is clear
and no bit lies outside the bitmap, that the file is a function on the positions
below `current_page_count`, and that `next_free_space` is the least free id.  The
last part needs to be kept by three operations in three ways; `FindNextFreeSpace`
starts its search at the old value, so it finds the least id only because there is
none below.

*Buffer manager.*  The properties are not inductive one by one.  That a page read
from the file is the right one needs that every page that exists is in the map or
was saved; this needs that clean frames are on disk, which needs that fixed
frames are not evicted while their dirty flag is behind their content, and all of
it needs that no two ids share a frame.  `Inv` is the conjunction of these, with
the state of the call in progress (a frame that is being filled is in no entry)
and of `destroy()` (entries already written).  The proof that a step keeps it has a
lemma for each action.  The steps of `PoolImplementsPageStore` are: an eviction
changes no page that the client can see, because what is in the frame is what the
file then has.

*Session.*  A database ends once because at each point of the program exactly the
globals, the object that is being executed and the script's databases own one, and
each phase hands them on (`EndedOnce`, `OwnersOK`).  A crash, the execution of a
null pointer, leaves the databases with their owners: none is destroyed twice, and some never.  Its pages stay on disk because
whoever opens the file at the path again has ended the one before; the proof has
to follow the objects that replace each other on the command line and the script
that makes one after another.

*B+ tree.*  The difficulty is that what makes the tree right is said of paths from the
root, for which one would have to compute with trees of any height, while every
action changes two or three pages in the middle.  The inductive invariant `IInv`
therefore says that there are labels for the pages: a span, the keys above `lo` and up
to `hi` that belong below the page, and its height `h`.  The labels of a page and
those of its children have to fit (`Links`), spans are nested or apart
(`Laminar`), a leaf's keys lie in its span and its last key is the span's end
(`KeysOK`), and the next leaf is the one whose span begins where this one's ends
(`NextOK`).  All of this is said page by page, so that a step is looked at
where it happens: a page outside the changed ones keeps its labels.

- One leaf may be odd.  Deleting a key that is also a separator first replaces the
  separator by the next smaller key and only then goes down to delete the key.  From
  `ExchangeKey` to `DeleteAtLeaf`, over any number of splits, merges and borrowed
  entries on the way, the key lies behind the end of its leaf's span.  The
  invariant names that leaf (`odd`) and the key, and says that the way down leads
  to it although it follows the wrong separators: always to the last child
  (`Here`, `Strictly`).  Without this, that `Biggest` may take the last key but one, and that
  the key to be deleted is met at all, is not inductive.
- Split, merge and borrowing are one relation, `Divides`: two neighbours below a
  parent are one node cut at a separator.  A merge is a split read backwards, a borrowed
  entry is a merge and a split with another separator.  So one pair of lemmas for
  the relation serves six actions, for leaves and inner nodes.
- What a call knows where it is (`Registers`) is a disjunction with one case per
  place: what `child` and `other` are, that a node that is inserted into is not full, that a node
  that is deleted from, or its next child, can spare an entry (`Spares`), that the
  key of an insertion is nowhere (`Fresh`).
- Which pages are fixed is a function of the place (`Fixed`).  `IInv` says that each is
  fixed at least once, which is enough for every step to be safe and also holds where a
  caller has left a leaf fixed; `Exact` says that the counts are the characteristic
  function.  `Few` says of each step that its fixed pages, before and after, are among
  three, from which `FewFixed` follows.

`TypeCorrect`, `FixesBalance`, `WritesSaved` and `ChainOrdered` are consequences of
`IInv`, `FixesBalance` with `Exact`.

*The tree as a map.*  `TreeImplementsMap` proves that the tree, with its `Contents`,
implements `KVStore`.  No two leaves have an entry with the same key, since their
spans are apart, so that the entries in the leaves are a map (`IsMapOf`) and
`Contents` is that map.  Every action that writes pages on the way keeps the set of
entries (`SameHeld`, proved with the same relation `Divides`); the last action of an
insertion, update or deletion changes the one entry of its key in its leaf.
The key of a `get` is in no other leaf than the one it comes to, so that "not
there" is the right answer.  A scan takes several steps while the map answers in
one: `SeenInv` says that what it has summed up so far is in order, has no gaps and
is all there is from its key up to the end of the last leaf's span.  When it ends, either
it has enough or there is no next leaf, hence no key behind.

*Walks from the root.*  `PagesFormATree`, `BalancedAndFilled`, `StoredKeysAreFound`,
`SeparatorsAreTight` and the program's checks are said with recursive functions, as the
code's methods are recursive.  A recursive function in TLA+ is a CHOOSE: before anything
can be said of its values, some function has to be shown to satisfy its equation.  For
functions of the level (`Level`, `Below`, `LeafFor`) that is a step from
level to level (`StepsExist`); for functions of the page (`Height`, `SmallerOrEqual`,
`Bigger`, `Sorted`, `Count`) the solution is written down with the labels of `IInv`: the
height is `h`, the sum of entries from a leaf on is the number of stored keys
above its `lo`.  What holds of all pages is proved by a least counterexample: the height
goes down from a page to its children, the spans go up along the chain.

- `OneTree`: a page has no two parents since spans are apart.  It has one since each
  level covers all keys (`LevelCovers`), so that the end of the page's span is also in the span
  of a node one level up, and of that node's child, which can only be the page (`HasParent`).
- `ValidateIsContent`, `ExchangesFound`: where a page's span ends, and where it begins, is a separator of
  some node above it (`SeparatedBoth`, downwards from the root), and the page lies on the
  edge that `bigger` or `smaller_or_equal` follows from there, or it does not: this is the
  difference between the exchanges that `validate` finds and those it does not look for.

*Workload.*  The workload makes calls that the tree's contract excludes: it scans from
records that it has deleted.  Such a scan returns with its leaf fixed (`ScanAfterDelete`),
so `FixesAreBalanced` is false for the workload, but `IInv`, which bounds the fixes from
below, goes on.  `WInv` adds that what the workload believes to be stored is what is stored, but for the one record of
the call in progress (`Follows`), and that a scan that misses is a scan of `KVStore` that is given up.
The proof found that `Performed` was too weak in the model: with no operations it held before
all records were loaded.

*The cache in memory.*  `RadixHeap` changes one cell at a time: a node is allocated before it
hangs in the tree, is cut off before it is freed, and its parent may be replaced in between.
The state between two steps is a tree but for some of its pointers.  `Good(m, R, V, F, E, w)`
says so of a memory `m`: it is a forest with the roots `R`, but for the dead pointers `V`, the nodes `F` that
are fixed and the nodes `E` that have too few children, and the account `current_size` is off
by `w`.  The shape is said cell by cell: every pointer leads to a live cell whose digits go on
from its parent's (`LinksOK`), no two pointers lead to the same cell (`OneLink`), and every cell
that is not a root is pointed to (`Held`).  That the cells are those that one reaches from the root follows
(`ReachedIs`, `EmptyWithoutRoots`), as the depths grow on the way.

- The five things that a step does to the memory are lemmas: a cell is allocated and is a new
  root; a root without children is freed; a pointer is cut, and its target becomes a root; a root is linked;
  a cell is paid for.  Each moves cells between the sets of `Good`, so a step of a call is a chain of them.
- The arrays come in once.  For every node type, what a node has for a digit (`Child`) is
  what the tree is made of, and inserting, deleting and copying to another type are said with
  `Child` alone (`NodeInsertIs`, `NodeDeleteIs`, `CopiedIs`).  Below this are the sorted keys of
  the two small types (`OrderIs`) and the search for a free slot of type 48 (`FreeSlot`).
- `HeapInv` has one case per place (`Phase`).  It says what a call knows there: an insertion, on which
  node it stands and with which digits; a deletion, also the parent and its digit; `update_range` and
  `destroy_recursive`, what lies on their stacks, and that what they have visited (`Visited`) and have still
  to visit is the whole tree.
- `current_size` is a sum over the cells.  The sum is a cardinality: of a set that has as many
  elements for each cell as it has bytes (`SumIs`, `Weight`, `CellsCounted`), so that adding or taking away a cell
  is a fact on disjoint sets and needs no induction over them.

`NothingLeaks`, `ArraysAlwaysAgree`, `FixesAreBalanced` and `CacheIsValid` are consequences of
`HeapInv`.

Only model-checked, and why:

* `EvictionEnds` and `CallsReturn`: liveness is out of the prover's reach.
* What the cache answers.  `ImplementsRadixTree` and `ImplementsReferenceCache` rest on the
  recursive operators of `RadixTree` and `MCRadixHeap`, and `DataManager` with `ReferencesAreExact` and its
  `ImplementsKVStore` on those of `RadixTree`; no module that reaches one can hold proofs.
  What is proved of the cache is that its memory is sound, not which page it
  answers with; and that the tree is a map is proved without the cache and checked with it.

## 7. What is not modelled

* Values of pages beyond their nodes, byte layout, alignment, `malloc` failing,
  errors of the file system (the code exits).
* The arrays behind the nodes of the B+ tree (16 in the plan).  Where stale array
  slots can be seen, in `scan`, they are a nondeterministic choice or excluded by
  what callers must do.  In the radix tree, the part of the unsorted arrays beyond
  `current_size`: `get_index` masks it, with vector instructions for type 16.
* Frames under the B+ tree in one model (17 in the plan): the tree stands on the
  promise `PageStore` that the buffer manager is proved to keep, for clients that
  keep the contract: that the tree keeps it is what `FixesBalance`, `WritesSaved` and
  `FewFixed` prove.
* Fixed pages where tree and cache work together.  A cached scan whose key is not on the
  page that it is handed leaves that page fixed (`radix_tree.h:1484`); `DataManager` has no fix counts,
  and `FixesAreBalanced` is about the tree without a cache.  Nothing checks this.
* The fixed sequences of calls in `run_config_one.cc` and `run_config_two.cc`, the table
  of parameters in `workloads_script.h`, distributions and proportions of workloads:
  data, of which the models take any.
* Timing, analysis, printing, and the vendored logging library `libs/spdlog`.  It is
  four fifths of the repository's lines and none of its logic, so the share of all
  lines that the model stands for is small although it is large for `src/src`.
