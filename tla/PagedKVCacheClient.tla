------------------------- MODULE PagedKVCacheClient -------------------------
(***************************************************************************)
(* The cache of PagedKVCache under any client that keeps to the protocol   *)
(* of its methods: a slot is used between its alloc and its free,          *)
(* positions are written only when ensure_capacity made room for them, and *)
(* store_prefix names a prompt whose positions are all written.  The       *)
(* scheduler and the model runner are such clients; here their order of    *)
(* calls is left open, so what holds is owed to the cache alone.           *)
(***************************************************************************)
EXTENDS PagedKVCache

CONSTANTS
  Prompts,   \* the token runs a client may ask for
  MaxClock   \* bound on the LRU counter

ASSUME ClientAssumption ==
  /\ Prompts \subseteq Seq(Tokens)
  /\ MaxClock \in Nat

InUse(s) == freeSlots[s] = 0

ClientAdmit(s, tokens) ==
  /\ clock < MaxClock
  /\ HasFreeBlock
  /\ AllocAndShare(s, tokens)

ClientGrow(s, tokens) ==
  /\ InUse(s)
  /\ ~ HasCapacity(s, Len(tokens))
  /\ EnsureCapacity(s, Len(tokens))

\* Prefill, in chunks or at once, and decode write behind what the slot reads.
ClientWrite(s, tokens) ==
  /\ InUse(s)
  /\ Len(ctx[s]) < Len(tokens)
  /\ SubSeq(tokens, 1, Len(ctx[s])) = ctx[s]
  /\ HasCapacity(s, Len(tokens))
  /\ WriteKV(s, Len(ctx[s]), tokens)

\* The packed prefill writes a prompt from its first position, through the
\* blocks of a shared prefix, too.
ClientRewrite(s, tokens) ==
  /\ InUse(s)
  /\ Len(ctx[s]) <= Len(tokens)
  /\ SubSeq(tokens, 1, Len(ctx[s])) = ctx[s]
  /\ HasCapacity(s, Len(tokens))
  /\ WriteKV(s, 0, tokens)

ClientStore(s) ==
  /\ clock < MaxClock
  /\ InUse(s)
  /\ ctx[s] # <<>>
  /\ StorePrefix(s, ctx[s])

ClientFree(s) ==
  /\ InUse(s)
  /\ Free(s)

KVNext ==
  \E s \in Slots :
    \/ \E tokens \in Prompts : \/ ClientAdmit(s, tokens)
                               \/ ClientGrow(s, tokens)
                               \/ ClientWrite(s, tokens)
                               \/ ClientRewrite(s, tokens)
    \/ ClientStore(s)
    \/ ClientFree(s)

KVSpec == KVInit /\ [][KVNext]_kvVars

-----------------------------------------------------------------------------
(* Properties of steps *)

\* A write changes only what the writing slot holds alone, although the packed
\* prefill also writes blocks it shares: neither another slot nor a prefix
\* entry sees its K/V change under it.
SharedKeepContents ==
  [][\A b \in Blocks : (data'[b] # data[b] /\ data'[b] # <<>>) => refs[b] = 1]_kvVars

\* Eviction is LRU: no entry goes while an older one stays, and a prompt loses
\* a boundary it has just stored only when nothing older is left to evict.
EvictionIsLRU ==
  [][/\ \A p \in DOMAIN entries \ DOMAIN entries' :
          ~ \E q \in DOMAIN entries \cap DOMAIN entries' :
               /\ entries'[q].lru = entries[q].lru
               /\ entries[q].lru < entries[p].lru
     /\ \A s \in Slots :
          ClientStore(s) /\ (\E q \in DOMAIN entries' : entries'[q].lru < clock')
             => Boundaries(ctx[s]) \subseteq DOMAIN entries']_kvVars
=============================================================================
