---------------------------- MODULE MCRadixHeap ----------------------------
(***************************************************************************)
(* RadixHeap with nodes of two, three, five and six children over six      *)
(* digits in place of 4, 16, 48 and 256 over 256, and what it implements.  *)
(* Some keys are inserted first, as many of a sequence as one likes, then  *)
(* any calls follow; their number bounds the runs.  The variable cache is  *)
(* history: the tree as it was after the last call, read from memory as a  *)
(* value of RadixTree.                                                     *)
(***************************************************************************)
EXTENDS RadixHeap

SmallCapacity == <<2, 3, 5, 6>>
SmallNodeSize == <<64, 80, 96, 112>>
SmallKeys == {-1, 0, 1, 2, 3, 4, 6, 36, 72}
SmallLoad == <<0, 36, 72, 6, -1, 1, 2, 3, 4, 0>>
SmallCalledKeys == {-1, 0, 3, 6, 72}
SmallRanges == {<<-1, 0>>, <<1, 36>>, <<2, 2>>}

CONSTANTS Load,         \* the keys that are inserted first
          LoadedPage,   \* all on one page
          CalledKeys,   \* bound: the keys of the calls that follow
          CalledRanges, \* bound: and the ranges that are updated
          MaxCalls      \* bound: how many calls follow

VARIABLES loaded,       \* so many of them were inserted
          calls,        \* and so many calls made then
          cache

mcVars == <<vars, loaded, calls, cache>>

RECURSIVE ValueAt(_, _)
ValueAt(heap, a) ==
  LET n == heap[a] IN
  IF "leaf" \notin DOMAIN n THEN n
  ELSE [type |-> n.type, leaf |-> n.leaf, depth |-> n.depth, key |-> n.key,
        children |-> [d \in Range(Order(n)) |-> ValueAt(heap, Child(n, d))]]

ValueOf(m, at, ring) ==
  [root |-> IF at = Null THEN [type |-> 0] ELSE ValueAt(m.heap, at),
   current_size |-> m.current_size,
   recent |-> [i \in DOMAIN ring |-> Transform(ring[i])]]

MCInit == Init /\ loaded = 0 /\ calls = 0 /\ cache = ValueOf(mem, root, recent)

LoadNext ==
  /\ calls = 0 /\ loaded < Len(Load)
  /\ Begin([kind |-> "insert", key |-> Load[loaded + 1], page |-> LoadedPage])
  /\ loaded' = loaded + 1
  /\ UNCHANGED <<calls, cache>>

CallAny ==
  /\ calls < MaxCalls
  /\ \E c \in CacheCalls :
       /\ c.kind \in {"insert", "update_range"} => c.page # LoadedPage
       /\ "key" \in DOMAIN c => c.key \in CalledKeys
       /\ c.kind = "update_range" => <<c.from, c.to>> \in CalledRanges
       /\ Begin(c)
  /\ calls' = calls + 1
  /\ UNCHANGED <<loaded, cache>>

Proceed ==
  /\ Step
  /\ cache' = IF step'.do = "nothing" THEN ValueOf(mem', root', recent') ELSE cache
  /\ UNCHANGED <<loaded, calls>>

Done == calls = MaxCalls /\ step = Idle /\ UNCHANGED mcVars

MCNext == LoadNext \/ CallAny \/ Proceed \/ Done
MCSpec == MCInit /\ [][MCNext]_mcVars

TransformedCall ==
  [f \in DOMAIN call |-> IF f \in {"key", "from", "to"} THEN Transform(call[f]) ELSE call[f]]

(* The pointers and arrays amount to the tree of values that the methods   *)
(* are meant to build: however cells are linked, copied and reused, each   *)
(* call has its effect on one tree and returns what is in it.              *)
AsRadixTree ==
  INSTANCE RadixTreeSpec WITH call <- TransformedCall,
                              CachedKeys <- {Transform(k) : k \in CachedKeys}
ImplementsRadixTree == AsRadixTree!Spec

(* And that tree is a cache of references under signed keys: it re-points  *)
(* the references of a range and no others, forgets at most one reference  *)
(* in a call, and finds every key that it holds.                           *)
References == {<<InverseTransform(r[1]), r[2]>> : r \in AsRadixTree!References(cache)}
AsReferenceCache ==
  INSTANCE ReferenceCache WITH
    refs <- [k \in {r[1] : r \in References} |->
               (CHOOSE r \in References : r[1] = k)[2]]
ImplementsReferenceCache == AsReferenceCache!Spec
=============================================================================
