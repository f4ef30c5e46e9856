------------------------- MODULE SpanProtocolProofs --------------------------
(***************************************************************************)
(* Proofs about SpanProtocol, for any finite set of cores, any spans, any  *)
(* number of objects and any threshold, with and without store buffers.    *)
(***************************************************************************)
EXTENDS SpanProtocol, ListFacts, FiniteSetTheorems, SequenceTheorems, TLAPS

(* A free that has not marked the span yet *)
Freeing ==
  {"free_owner", "free_push", "free_count", "free_alive", "free_revive",
   "free_unmark", "free_mark"}

(* A free that has read the owner *)
Informed ==
  {"free_push", "free_count", "free_alive", "free_revive", "free_unmark",
   "free_mark", "free_unlink", "free_delete", "free_link"}

(* GetSpan with a span that it has taken from the list *)
Popping == {"get_epoch", "get_hot"}

(* All that have a span at hand *)
Busy == Freeing \cup Informed \cup Popping

(* malloc, and the end of a thread, with a hot span and without *)
Hot == {"alloc", "alloc_last", "refill", "float_load", "float_store", "get_move"}
Cold == {"get_remove", "get_epoch", "get_hot", "get_new", "drain", "terminate", "dead"}

(* A free that has its object still in its hands *)
Flying == {"free_owner", "free_push"}

(* An identity that nobody has any more *)
Over(i) == \A d \in Cores : id[d] # i

InList(c, s) == Contains(rspans[c], s)

(* GetSpan has taken the span from its list and it is still its own. *)
Carries(c, s) == pc[c] \in Popping /\ sp[c] = s /\ owner[s] = id[c]

(* A free that marked the span reusable, and whose PushFront would link it *)
Links(c, s) ==
  /\ pc[c] = "free_link" /\ sp[c] = s /\ ListAccepts(c)
  /\ \/ epoch[s].value = ep[c].value + 1
     \/ epoch[s].value = ep[c].value + 2 /\ \E d \in Cores : Deleting(d, s)

(* e was the epoch of a span, and now is *)
Past(e, now) ==
  \/ e = now
  \/ e.value < now.value
  \/ e.value = now.value /\ now.mark = "none"

(* The epoch has not been marked since the free of c has read it. *)
Current(c) == pc[c] \in Freeing /\ ep[c].value = epoch[sp[c]].value

(* Nothing at all has happened to the epoch, and nobody allocates. *)
Still(c) == pc[c] \in Freeing /\ ep[c] = epoch[sp[c]] /\ IsFloatingOrReusable(ep[c])

-----------------------------------------------------------------------------
(* The inductive invariant *)

IdInv ==
  /\ \A c \in Cores :
       /\ id[c] = kTerminated <=> pc[c] = "dead"
       /\ id[c] # kTerminated => id[c].core = c
       /\ id[c].tag <= threads /\ ow[c].tag <= threads
       /\ opened[c] = id[c] \/ opened[c] = kTerminated
       /\ pc[c] \in {"drain", "terminate"} => opened[c] = kTerminated
       /\ pc[c] \in {"float_load", "float_store"} =>
            op[c] = "malloc" \/ opened[c] = kTerminated
  /\ \A s \in Spans : owner[s].tag <= threads

(* What a core has, by where it is *)
CoreInv ==
  \A c \in Cores :
    /\ sp[c] = NoSpan <=> pc[c] \notin Busy
    /\ pc[c] \in Hot => hot[c] # NoSpan
    /\ pc[c] \in Cold => hot[c] = NoSpan
    /\ pc[c] \in Informed => ow[c] # kTerminated
    /\ pc[c] = "free_revive" => Over(ow[c])
    /\ pc[c] = "terminate" => rspans[c] = << >>
    /\ sp[c] \notin fresh /\ hot[c] \notin fresh

FreshInv ==
  \A s \in Spans :
    /\ s \notin fresh => owner[s] # kTerminated
    /\ s \in fresh => /\ epoch[s] = NoEpoch /\ live[s] = 0 /\ s \notin pool
                      /\ \A c \in Cores : ~InList(c, s)

HotInv ==
  \A c \in Cores : hot[c] # NoSpan =>
    /\ owner[hot[c]] = id[c]
    /\ hot[c] \notin pool
    /\ epoch[hot[c]].mark \in {"hot", "full"}
    /\ pc[c] = "float_store" => ep[c] = epoch[hot[c]]
    /\ \A d \in Cores : ~InList(d, hot[c]) /\ ~Deleting(d, hot[c])

MarkInv ==
  \A s \in Spans :
    /\ epoch[s].mark = "hot" => \E c \in Cores : hot[c] = s
    /\ epoch[s].mark = "full" =>
         s \in pool \/ \E c \in Cores : hot[c] = s \/ Deleting(c, s)

DeleteInv ==
  \A s \in Spans :
    /\ s \in pool => /\ epoch[s].mark = "full" /\ live[s] = 0
                     /\ \A c \in Cores : /\ ~InList(c, s) /\ ~Deleting(c, s)
                                         /\ sp[c] = s => pc[c] \notin Flying
    /\ \A c \in Cores : Deleting(c, s) =>
         /\ epoch[s] = Epoch("full", ep[c].value + 1) /\ live[s] = 0
         /\ \A d \in Cores : /\ sp[d] = s => pc[d] \notin Flying
                             /\ Deleting(d, s) => c = d

(* What a free knows of the epoch that it has read *)
EpochOf(c) ==
  /\ pc[c] \in Freeing => Past(ep[c], epoch[sp[c]])
  /\ Current(c) =>
       /\ sp[c] \notin pool
       /\ \A d \in Cores : ~Deleting(d, sp[c])
       /\ pc[c] \in Informed => owner[sp[c]] = ow[c] \/ Over(ow[c])
  /\ pc[c] = "free_unmark" /\ ep[c] = epoch[sp[c]] =>
       /\ owner[sp[c]] = id[c] /\ ep[c].mark \in {"none", "reuse"}
       /\ \A d \in Cores : ~InList(d, sp[c]) /\ ~Links(d, sp[c])
  /\ pc[c] = "free_link" => ep[c].value + 1 <= epoch[sp[c]].value
  /\ pc[c] = "free_link" /\ ListAccepts(c) /\ epoch[sp[c]].value = ep[c].value + 1 =>
       epoch[sp[c]].mark = "reuse"

EpochInv == \A c \in Cores : EpochOf(c)

LinkInv ==
  \A s \in Spans, c \in Cores :
    /\ InList(c, s) => /\ owner[s] = id[c]
                       /\ epoch[s].mark = "reuse" \/ \E d \in Cores : Deleting(d, s)
    /\ Carries(c, s) => /\ epoch[s].mark \in {"reuse", "full"}
                        /\ \A d \in Cores : ~InList(d, s)
    /\ Links(c, s) =>
         /\ owner[s] = ow[c]
         /\ \A d \in Cores : /\ ~InList(d, s) /\ ~Carries(d, s)
                             /\ Links(d, s) => c = d

OnceInv == \A c \in Cores : IsInjective(rspans[c])

CountInv ==
  /\ ObjectsConserved
  /\ \A s \in Spans : (\A c \in Cores : hot[c] # s) => visible[s] <= local[s]
  /\ \A c \in Cores : Still(c) =>
       /\ pc[c] = "free_count" =>
            cnt[c] <= IF owner[sp[c]] = id[c] THEN local[sp[c]] ELSE remote[sp[c]]
       /\ pc[c] \in {"free_alive", "free_revive", "free_unmark", "free_mark"} =>
            cnt[c] <= local[sp[c]] + remote[sp[c]]
  /\ \A c \in Cores : pc[c] = "free_count" => cnt[c] <= K

(* The structure: who may do what to a span *)
Structure ==
  /\ IdInv /\ CoreInv /\ FreshInv /\ HotInv /\ MarkInv /\ DeleteInv
  /\ EpochInv /\ LinkInv /\ OnceInv

(* All of it, while no assertion of the code has failed *)
Sound == TypeOK /\ Structure /\ CountInv

(* What is left of it in a behaviour's last state if one has failed *)
Safe ==
  /\ TypeOK /\ ObjectsConserved /\ HotIsExclusive /\ DeletedOnce
  /\ FloatHasNoRace /\ ListedByOwner /\ FullIsDeleted

IInv == Safe /\ (broken = "nothing" => Sound)


-----------------------------------------------------------------------------
(* Epochs and identities *)

LEMMA EpochType ==
  ASSUME NEW m \in Marks, NEW v \in 0 .. MaxEpoch
  PROVE  Epoch(m, v) \in Epochs /\ Epoch(m, v).mark = m /\ Epoch(m, v).value = v
BY DEF Epoch, Epochs

LEMMA EpochFields ==
  ASSUME NEW e \in Epochs
  PROVE  /\ e.mark \in Marks /\ e.value \in 0 .. MaxEpoch
         /\ e.value \in Nat /\ e.value <= MaxEpoch
BY BoundsAssumption DEF Epochs

(* Epochs are equal if their fields are. *)
LEMMA EpochEqual ==
  ASSUME NEW e \in Epochs, NEW f \in Epochs, e.mark = f.mark, e.value = f.value
  PROVE  e = f
BY DEF Epochs

LEMMA OnlyValueType ==
  ASSUME NEW e \in Epochs
  PROVE  /\ OnlyValue(e) \in Epochs /\ OnlyValue(e).mark = "none"
         /\ OnlyValue(e).value = e.value
         /\ e.mark = "none" => OnlyValue(e) = e
<1>1. "none" \in Marks /\ e.value \in 0 .. MaxEpoch
  BY EpochFields DEF Marks
<1>2. /\ OnlyValue(e) \in Epochs /\ OnlyValue(e).mark = "none"
      /\ OnlyValue(e).value = e.value
  BY <1>1, EpochType DEF OnlyValue
<1> QED
  BY <1>2, EpochEqual

LEMMA OnlyReuseType ==
  ASSUME NEW e \in Epochs
  PROVE  /\ OnlyReuse(e) \in Epochs /\ OnlyReuse(e).mark \in {"none", "reuse"}
         /\ OnlyReuse(e).value = e.value
         /\ IsFloatingOrReusable(e) => OnlyReuse(e) = e
BY OnlyValueType, EpochFields DEF OnlyReuse, IsReusable, IsFloatingOrReusable, IsFull, IsHot, Marks

LEMMA MarkedType ==
  ASSUME NEW e \in Epochs, NEW m \in Marks, EpochBound(e)
  PROVE  /\ Marked(e, m) \in Epochs /\ Marked(e, m).mark = m
         /\ Marked(e, m).value = e.value + 1
<1>1. e.value + 1 \in 0 .. MaxEpoch
  BY EpochFields, BoundsAssumption DEF EpochBound
<1> QED
  BY <1>1, EpochType DEF Marked

(* Time goes on. *)
LEMMA PastGoesOn ==
  ASSUME NEW e \in Epochs, NEW f \in Epochs, NEW g \in Epochs, Past(e, f), Past(f, g)
  PROVE  Past(e, g)
BY EpochFields DEF Past

LEMMA CoreIdFacts ==
  /\ kTerminated \in CoreIds /\ kTerminated.core = NoCore /\ kTerminated.tag = 0
  /\ \A i \in CoreIds : /\ i.tag \in 0 .. MaxThreads
                        /\ i # kTerminated => i.core \in Cores
  /\ \A c \in Cores, n \in 1 .. MaxThreads :
       /\ CoreId(c, n) \in CoreIds /\ CoreId(c, n) # kTerminated
       /\ CoreId(c, n).core = c /\ CoreId(c, n).tag = n
<1>1. kTerminated \in CoreIds /\ kTerminated.core = NoCore /\ kTerminated.tag = 0
  BY DEF CoreIds, kTerminated, CoreId
<1>2. ASSUME NEW i \in CoreIds
      PROVE  i.tag \in 0 .. MaxThreads /\ (i # kTerminated => i.core \in Cores)
  <2>1. CASE i = kTerminated
    BY <2>1, <1>1, BoundsAssumption
  <2>2. CASE i # kTerminated
    BY <2>2, BoundsAssumption DEF CoreIds
  <2> QED
    BY <2>1, <2>2
<1>3. ASSUME NEW c \in Cores, NEW n \in 1 .. MaxThreads
      PROVE  /\ CoreId(c, n) \in CoreIds /\ CoreId(c, n) # kTerminated
             /\ CoreId(c, n).core = c /\ CoreId(c, n).tag = n
  <2>1. CoreId(c, n).core = c /\ CoreId(c, n).tag = n
    BY DEF CoreId
  <2>2. CoreId(c, n) \in CoreIds
    BY DEF CoreId, CoreIds
  <2> QED
    BY <2>1, <2>2, <1>1, NullAssumption
<1> QED
  BY <1>1, <1>2, <1>3

(* No two cores share an identity. *)
LEMMA IdsApart ==
  ASSUME IdInv, NEW c \in Cores, NEW d \in Cores, id[c] = id[d], id[c] # kTerminated
  PROVE  c = d
BY DEF IdInv

(* An open list belongs to the thread that its core serves. *)
LEMMA OpenAlive ==
  ASSUME TypeOK, IdInv, NEW c \in Cores, ListAccepts(c), ow[c] # kTerminated
  PROVE  ow[c].core \in Cores /\ id[ow[c].core] = ow[c] /\ ~Over(ow[c])
<1>1. ow[c] \in CoreIds
  BY DEF TypeOK
<1>2. ow[c].core \in Cores
  BY <1>1, CoreIdFacts
<1>3. opened[ow[c].core] = ow[c]
  BY DEF ListAccepts
<1> QED
  BY <1>2, <1>3 DEF IdInv, Over

LEMMA Labelled ==
  /\ Freeing \subseteq Labels /\ Informed \subseteq Labels /\ Popping \subseteq Labels
  /\ Flying \subseteq Freeing
  /\ "free_link" \in Busy /\ "free_link" \in Informed
  /\ Freeing \subseteq Busy /\ Popping \subseteq Busy
BY DEF Freeing, Informed, Popping, Labels, Flying, Busy

LEMMA StructureParts ==
  ASSUME Sound
  PROVE  /\ TypeOK /\ IdInv /\ CoreInv /\ FreshInv /\ HotInv /\ MarkInv /\ DeleteInv
         /\ EpochInv /\ LinkInv /\ OnceInv /\ CountInv
BY DEF Sound, Structure

-----------------------------------------------------------------------------
(* What a step leaves alone *)

(* Whatever c does, other cores stay where they are. *)
Others(c) ==
  \A d \in Cores \ {c} :
    /\ pc'[d] = pc[d] /\ op'[d] = op[d] /\ sp'[d] = sp[d]
    /\ ep'[d] = ep[d] /\ ow'[d] = ow[d] /\ cnt'[d] = cnt[d]


(* A core outside of free has read no epoch that matters. *)
LEMMA EpochIdle ==
  ASSUME NEW d \in Cores, pc'[d] \notin Freeing, pc'[d] # "free_link"
  PROVE  EpochOf(d)'
BY DEF EpochOf, Current, Freeing

(* After a mark, no free that had read the epoch before is current. *)
LEMMA EpochBumped ==
  ASSUME TypeOK, CoreInv, EpochInv, NEW d \in Cores,
         pc'[d] = pc[d], ep'[d] = ep[d], sp'[d] = sp[d],
         sp[d] \in Spans => /\ epoch'[sp[d]] \in Epochs
                            /\ epoch[sp[d]].value < epoch'[sp[d]].value
  PROVE  EpochOf(d)'
<1>1. sp[d] \in Spans \/ sp[d] = NoSpan
  BY DEF TypeOK
<1>2. CASE sp[d] = NoSpan
  BY <1>2, EpochIdle, Labelled DEF CoreInv
<1>3. CASE sp[d] \in Spans
  <2>1. ep[d] \in Epochs /\ epoch[sp[d]] \in Epochs
    BY <1>3 DEF TypeOK
  <2>2. /\ ep[d].value \in Nat /\ epoch[sp[d]].value \in Nat /\ epoch'[sp[d]].value \in Nat
        /\ epoch[sp[d]].value < epoch'[sp[d]].value
    BY <1>3, <2>1, EpochFields
  <2>3. pc[d] \in Freeing => ep[d].value < epoch'[sp[d]].value
    BY <2>2 DEF EpochInv, EpochOf, Past
  <2>4. pc[d] = "free_link" => ep[d].value + 1 < epoch'[sp[d]].value
    BY <2>2 DEF EpochInv, EpochOf
  <2> QED
    BY <2>2, <2>3, <2>4 DEF EpochOf, Current, Past, Freeing
<1> QED
  BY <1>1, <1>2, <1>3

(* As long as the epoch stays, what is known of it stays. *)
LEMMA EpochKept ==
  ASSUME TypeOK, CoreInv, EpochInv, NEW d \in Cores, NEW s,
         pc'[d] = pc[d], ep'[d] = ep[d], sp'[d] = sp[d], ow'[d] = ow[d], s = sp[d],
         epoch'[s] = epoch[s],
         Current(d) => s \notin pool' /\ \A f \in Cores : ~Deleting(f, s)',
         Current(d) /\ pc[d] \in Informed => owner'[s] = ow[d] \/ Over(ow[d])',
         pc[d] = "free_unmark" /\ ep[d] = epoch[s] =>
           /\ owner'[s] = id'[d]
           /\ \A f \in Cores : ~InList(f, s)' /\ ~Links(f, s)',
         pc[d] = "free_link" /\ ListAccepts(d)' => ListAccepts(d)
  PROVE  EpochOf(d)'
<1>1. Current(d)' <=> Current(d)
  BY DEF Current
<1>2. EpochOf(d)
  BY DEF EpochInv
<1> QED
  BY <1>1, <1>2 DEF EpochOf

(* In particular if the step is about another span. *)
LEMMA EpochElsewhere ==
  ASSUME TypeOK, CoreInv, EpochInv, NEW d \in Cores, id' = id,
         pc'[d] = pc[d], ep'[d] = ep[d], sp'[d] = sp[d], ow'[d] = ow[d],
         pc[d] = "free_link" /\ ListAccepts(d)' => ListAccepts(d),
         \A t \in Spans : t = sp[d] =>
           /\ epoch'[t] = epoch[t] /\ owner'[t] = owner[t]
           /\ t \in pool' => t \in pool
           /\ \A f \in Cores : /\ Deleting(f, t)' => Deleting(f, t)
                               /\ InList(f, t)' => InList(f, t)
                               /\ Links(f, t)' => Links(f, t)
  PROVE  EpochOf(d)'
<1>1. sp[d] \in Spans \/ sp[d] = NoSpan
  BY DEF TypeOK
<1>2. CASE sp[d] = NoSpan
  BY <1>2, EpochIdle, Labelled DEF CoreInv
<1>3. CASE sp[d] \in Spans
  <2>1. EpochOf(d)
    BY DEF EpochInv
  <2>2. Over(ow[d]) => Over(ow[d])'
    BY DEF Over
  <2> QED
    BY <1>3, <2>1, <2>2, EpochKept DEF EpochOf
<1> QED
  BY <1>1, <1>2, <1>3

(* A step that changes neither epochs nor owners nor lists: what is left   *)
(* to say about it is where c goes.                                        *)
LEMMA QuietStep ==
  ASSUME Sound, NEW c \in Cores, TypeOK', Others(c),
         UNCHANGED << epoch, owner, pool, fresh, id, hot, rspans, opened, threads >>,
         \A s \in Spans :
           \/ live'[s] = live[s]
           \/ s \notin pool /\ s \notin fresh /\ \A d \in Cores : ~Deleting(d, s),
         pc[c] # "dead", pc[c] \notin {"free_unlink", "free_delete"},
         pc'[c] \notin {"dead", "drain", "terminate", "free_unmark", "free_unlink",
                        "free_delete", "free_link"},
         pc'[c] \in {"float_load", "float_store"} => op'[c] = "malloc" \/ opened[c] = kTerminated,
         ow'[c].tag <= threads,
         sp'[c] = NoSpan <=> pc'[c] \notin Busy,
         pc'[c] \in Hot => hot[c] # NoSpan,
         pc'[c] \in Cold => hot[c] = NoSpan,
         pc'[c] \in Informed => ow'[c] # kTerminated,
         pc'[c] = "free_revive" => Over(ow'[c]),
         sp'[c] \notin fresh,
         pc'[c] = "float_store" => ep'[c] = epoch[hot[c]],
         pc'[c] \in Flying => /\ sp'[c] \notin pool
                              /\ \A d \in Cores : ~Deleting(d, sp'[c]),
         pc'[c] \in Freeing => Past(ep'[c], epoch[sp'[c]]),
         pc'[c] \in Freeing /\ ep'[c].value = epoch[sp'[c]].value =>
           /\ sp'[c] \notin pool
           /\ \A d \in Cores : ~Deleting(d, sp'[c])
           /\ pc'[c] \in Informed => owner[sp'[c]] = ow'[c] \/ Over(ow'[c]),
         pc'[c] \in Popping => pc[c] \in Popping /\ sp'[c] = sp[c]
  PROVE  Structure'
<1>0. /\ TypeOK /\ IdInv /\ CoreInv /\ FreshInv /\ HotInv /\ MarkInv /\ DeleteInv
      /\ EpochInv /\ LinkInv /\ OnceInv
  BY StructureParts
<1>1. /\ sp \in [Cores -> Spans \cup {NoSpan}] /\ hot \in [Cores -> Spans \cup {NoSpan}]
      /\ ow \in [Cores -> CoreIds]
  BY <1>0 DEF TypeOK
<1>2. \A d \in Cores : \A s : Deleting(d, s)' <=> Deleting(d, s)
  BY DEF Others, Deleting
<1>3. \A d \in Cores : \A s : InList(d, s)' <=> InList(d, s)
  BY DEF InList
<1>4. \A d \in Cores : \A s : Carries(d, s)' => Carries(d, s)
  BY DEF Others, Carries
<1>5. \A d \in Cores \ {c} : ListAccepts(d)' <=> ListAccepts(d)
  BY DEF Others, ListAccepts
<1>6. \A d \in Cores : \A s : Links(d, s)' => Links(d, s) /\ d # c
  BY <1>2, <1>5 DEF Others, Links
<1>7. \A i : Over(i)' <=> Over(i)
  BY DEF Over
<1>8. IdInv'
  BY <1>0 DEF IdInv, Others
<1>9. CoreInv'
  BY <1>0, <1>7 DEF CoreInv, Others
<1>10. FreshInv'
  BY <1>0, <1>3 DEF FreshInv
<1>11. HotInv'
  BY <1>0, <1>2, <1>3 DEF HotInv, Others
<1>12. MarkInv'
  BY <1>0, <1>2 DEF MarkInv
<1>13. DeleteInv'
  <2>1. \A s : ~Deleting(c, s)
    BY DEF Deleting
  <2>2. ASSUME NEW s \in Spans, s \in pool \/ \E d \in Cores : Deleting(d, s)
        PROVE  live'[s] = 0 /\ \A d \in Cores : sp'[d] = s => pc'[d] \notin Flying
    <3>1. live[s] = 0 /\ \A d \in Cores : sp[d] = s => pc[d] \notin Flying
      BY <1>0, <2>2 DEF DeleteInv
    <3> QED
      BY <2>2, <3>1 DEF Others
  <2>3. \A d \in Cores, s \in Spans : Deleting(d, s) => ep'[d] = ep[d]
    BY <2>1 DEF Others
  <2> QED
    BY <1>0, <1>2, <1>3, <2>2, <2>3 DEF DeleteInv
<1>14. EpochInv'
  BY <1>0, <1>2, <1>3, <1>5, <1>6, <1>7 DEF EpochInv, EpochOf, Others, Current
<1>15. LinkInv'
  BY <1>0, <1>2, <1>3, <1>4, <1>6 DEF LinkInv, Others
<1>16. OnceInv'
  BY <1>0 DEF OnceInv
<1> QED
  BY <1>8, <1>9, <1>10, <1>11, <1>12, <1>13, <1>14, <1>15, <1>16 DEF Structure


-----------------------------------------------------------------------------
(* The steps that change an epoch, an owner, a list or an identity *)

(* NewMarkFloating: nobody who has read the epoch before can mistake the   *)
(* new one for it.                                                         *)
LEMMA FloatStoreKeeps ==
  ASSUME Sound, NEW c \in Cores, FloatStore(c)
  PROVE  Structure'
<1>0. /\ TypeOK /\ IdInv /\ CoreInv /\ FreshInv /\ HotInv /\ MarkInv /\ DeleteInv
      /\ EpochInv /\ LinkInv /\ OnceInv
  BY StructureParts
<1>1. /\ sp \in [Cores -> Spans \cup {NoSpan}] /\ hot \in [Cores -> Spans \cup {NoSpan}]
      /\ ow \in [Cores -> CoreIds] /\ pc \in [Cores -> Labels] /\ ep \in [Cores -> Epochs]
      /\ epoch \in [Spans -> Epochs] /\ op \in [Cores -> {"none", "malloc", "last", "free", "exit"}]
  BY <1>0 DEF TypeOK
<1>2a. pc[c] = "float_store" /\ hot[c] \in Spans /\ id[c] # kTerminated /\ hot[c] \notin fresh
  BY <1>0, <1>1 DEF FloatStore, CoreInv, Hot, IdInv
<1> PICK s \in Spans : s = hot[c]
  BY <1>2a
<1> PICK e : e = OnlyValue(ep[c])
  OBVIOUS
<1>2. /\ pc[c] = "float_store" /\ s = hot[c] /\ s # NoSpan /\ id[c] # kTerminated
      /\ s \notin fresh
  BY <1>2a, NullAssumption
<1>3. /\ owner[s] = id[c] /\ s \notin pool /\ ep[c] = epoch[s]
      /\ epoch[s].mark \in {"hot", "full"}
      /\ \A d \in Cores : ~InList(d, s) /\ ~Deleting(d, s)
  BY <1>0, <1>2 DEF HotInv
<1>4. e \in Epochs /\ e.mark = "none" /\ e.value = epoch[s].value
  BY <1>1, <1>2, <1>3, OnlyValueType
<1>5. /\ epoch' = [epoch EXCEPT ![s] = e] /\ hot' = [hot EXCEPT ![c] = NoSpan]
      /\ ep' = [ep EXCEPT ![c] = NoEpoch]
      /\ UNCHANGED << owner, live, pool, fresh, id, rspans, opened, threads, sp, ow >>
      /\ \A d \in Cores \ {c} : op'[d] = op[d]
  BY <1>1 DEF FloatStore
<1>6. \E l \in {"get_remove", "drain"} :
        /\ pc' = [pc EXCEPT ![c] = l]
        /\ l = "drain" => opened[c] = kTerminated
  <2>1. op[c] = "malloc" \/ opened[c] = kTerminated
    BY <1>0, <1>2 DEF IdInv
  <2> QED
    BY <2>1 DEF FloatStore, Goto
<1>7. PICK l \in {"get_remove", "drain"} :
        /\ pc' = [pc EXCEPT ![c] = l]
        /\ l = "drain" => opened[c] = kTerminated
  BY <1>6
<1>8. /\ pc'[c] = l /\ hot'[c] = NoSpan
      /\ \A d \in Cores \ {c} : pc'[d] = pc[d] /\ ep'[d] = ep[d] /\ hot'[d] = hot[d]
  BY <1>1, <1>5, <1>7
<1>9. /\ epoch'[s] = e /\ \A t \in Spans \ {s} : epoch'[t] = epoch[t]
      /\ \A t \in Spans : epoch'[t] \in Epochs /\ epoch'[t].value = epoch[t].value
      /\ \A t \in Spans : Past(epoch[t], epoch'[t])
  BY <1>1, <1>2, <1>4, <1>5 DEF Past
<1>10. \A d \in Cores : \A t : Deleting(d, t)' <=> Deleting(d, t)
  BY <1>2, <1>5, <1>7, <1>8 DEF Deleting
<1>11. \A d \in Cores : \A t : InList(d, t)' <=> InList(d, t)
  BY <1>5 DEF InList
<1>12. \A d \in Cores : \A t : Carries(d, t)' => Carries(d, t) /\ d # c
  BY <1>2, <1>5, <1>7, <1>8 DEF Carries, Popping
<1>13. \A d \in Cores : ListAccepts(d)' <=> ListAccepts(d)
  BY <1>5 DEF ListAccepts
<1>14. \A d \in Cores, t \in Spans : Links(d, t)' <=> Links(d, t)
  BY <1>2, <1>5, <1>7, <1>8, <1>9, <1>10, <1>13 DEF Links
<1>15. \A i : Over(i)' <=> Over(i)
  BY <1>5 DEF Over
<1>16. \A d \in Cores : hot[d] = s => d = c
  BY <1>0, <1>2, <1>3, IdsApart DEF HotInv
<1>20. IdInv'
  BY <1>0, <1>2, <1>5, <1>7, <1>8 DEF IdInv
<1>21. CoreInv'
  BY <1>0, <1>2, <1>5, <1>7, <1>8, <1>15, NullAssumption, ZenonT(60)
     DEF CoreInv, Busy, Freeing, Informed, Popping, Hot, Cold, TypeOK
<1>22. FreshInv'
  BY <1>0, <1>2, <1>5, <1>9, <1>11 DEF FreshInv
<1>23. HotInv'
  BY <1>0, <1>1, <1>5, <1>8, <1>9, <1>10, <1>11, <1>16 DEF HotInv
<1>24. MarkInv'
  BY <1>0, <1>2, <1>4, <1>5, <1>8, <1>9, <1>10 DEF MarkInv
<1>25. DeleteInv'
  <2>1. \A d \in Cores : sp'[d] = sp[d] /\ (pc'[d] \in Flying => pc[d] \in Flying)
    BY <1>5, <1>7, <1>8 DEF Flying
  <2>2. \A d \in Cores : \A t : Deleting(d, t) => ep'[d] = ep[d] /\ t # s
    BY <1>2, <1>3, <1>8 DEF Deleting
  <2> QED
    BY <1>0, <1>3, <1>5, <1>9, <1>10, <1>11, <2>1, <2>2 DEF DeleteInv
<1>26. EpochInv'
  <2> SUFFICES ASSUME NEW d \in Cores PROVE EpochOf(d)'
    BY DEF EpochInv
  <2>0. EpochOf(d)
    BY <1>0 DEF EpochInv
  <2>1. CASE d = c
    BY <2>1, <1>7, <1>8, EpochIdle DEF Freeing
  <2>2. CASE d # c /\ sp[d] # s
    BY <2>2, <1>0, <1>5, <1>8, <1>9, <1>10, <1>11, <1>13, <1>14, EpochElsewhere
  <2>3. CASE d # c /\ sp[d] = s
    <3>1. /\ pc'[d] = pc[d] /\ ep'[d] = ep[d] /\ sp'[d] = s /\ ow'[d] = ow[d] /\ ep[d] \in Epochs
          /\ Current(d)' <=> Current(d)
      BY <1>1, <1>2, <1>5, <1>8, <1>9, <2>3 DEF Current
    <3>2. pc[d] \in Freeing => Past(ep[d], e)
      BY <1>1, <1>2, <1>9, <2>0, <2>3, <3>1, PastGoesOn DEF EpochOf
    <3>3. pc[d] = "free_unmark" => ep[d] # e
      <4> SUFFICES ASSUME pc[d] = "free_unmark", ep[d] = e PROVE FALSE
        OBVIOUS
      <4>1. Past(e, epoch[s])
        BY <2>0, <2>3 DEF EpochOf, Freeing
      <4> QED
        BY <4>1, <1>1, <1>2, <1>3, <1>4, EpochFields DEF Past
    <3>4. pc[d] = "free_link" /\ ListAccepts(d) => epoch[s].value # ep[d].value + 1
      BY <1>3, <2>0, <2>3 DEF EpochOf
    <3> QED
      BY <1>2, <1>5, <1>9, <1>10, <1>13, <1>15, <2>0, <2>3, <3>1, <3>2, <3>3, <3>4 DEF EpochOf
  <2> QED
    BY <2>1, <2>2, <2>3
<1>27. LinkInv'
  <2>1. \A d \in Cores : ~Carries(d, s)'
    BY <1>0, <1>2, <1>3, <1>12, IdsApart DEF Carries
  <2> QED
    BY <1>0, <1>3, <1>5, <1>9, <1>10, <1>11, <1>12, <1>14, <2>1 DEF LinkInv
<1>28. OnceInv'
  BY <1>0, <1>5 DEF OnceInv
<1> QED
  BY <1>20, <1>21, <1>22, <1>23, <1>24, <1>25, <1>26, <1>27, <1>28 DEF Structure


(* NewMarkHot in GetSpan, on a span that is still the core's own: nobody   *)
(* else has a hold on it.                                                  *)
LEMMA GetHotKeeps ==
  ASSUME Sound, NEW c \in Cores, GetHot(c), pc'[c] = "get_move"
  PROVE  Structure'
<1>0. /\ TypeOK /\ IdInv /\ CoreInv /\ FreshInv /\ HotInv /\ MarkInv /\ DeleteInv
      /\ EpochInv /\ LinkInv /\ OnceInv
  BY StructureParts
<1>1. /\ sp \in [Cores -> Spans \cup {NoSpan}] /\ hot \in [Cores -> Spans \cup {NoSpan}]
      /\ ow \in [Cores -> CoreIds] /\ pc \in [Cores -> Labels] /\ ep \in [Cores -> Epochs]
      /\ epoch \in [Spans -> Epochs]
  BY <1>0 DEF TypeOK
<1>2. /\ pc[c] = "get_hot" /\ sp[c] \in Spans /\ sp[c] \notin fresh
      /\ id[c] # kTerminated /\ hot[c] = NoSpan
  BY <1>0, <1>1, Labelled DEF GetHot, CoreInv, Popping, Busy, Cold, IdInv
<1> PICK s \in Spans : s = sp[c]
  BY <1>2
<1> PICK e : e = Marked(OnlyReuse(ep[c]), "hot")
  OBVIOUS
<1>3. /\ epoch[s] = OnlyReuse(ep[c]) /\ EpochBound(OnlyReuse(ep[c])) /\ owner[s] = id[c]
      /\ epoch' = [epoch EXCEPT ![s] = e] /\ hot' = [hot EXCEPT ![c] = s]
      /\ pc' = [pc EXCEPT ![c] = "get_move"] /\ sp' = [sp EXCEPT ![c] = NoSpan]
      /\ ep' = [ep EXCEPT ![c] = NoEpoch]
      /\ UNCHANGED << owner, live, pool, fresh, id, rspans, opened, threads, op, ow >>
  BY <1>1, <1>2 DEF GetHot, Exchange, ExchangeFails, Goto
<1>4. /\ e \in Epochs /\ e.mark = "hot" /\ e.value = epoch[s].value + 1
      /\ epoch[s].mark \in {"none", "reuse"} /\ epoch[s].value \in Nat
  <2>1. OnlyReuse(ep[c]) \in Epochs /\ OnlyReuse(ep[c]).mark \in {"none", "reuse"}
    BY <1>1, OnlyReuseType
  <2> QED
    BY <1>1, <1>3, <2>1, MarkedType, EpochFields DEF Marks
<1>5. Carries(c, s)
  BY <1>2, <1>3 DEF Carries, Popping
<1>6. \A d \in Cores : ~InList(d, s) /\ ~Links(d, s)
  BY <1>0, <1>5 DEF LinkInv
<1>7. /\ s \notin pool /\ \A d \in Cores : ~Deleting(d, s) /\ hot[d] # s
  <2>1. \A d \in Cores : hot[d] # s
    BY <1>0, <1>4, NullAssumption DEF HotInv
  <2>2. \A d \in Cores : ~Deleting(d, s)
    <3> SUFFICES ASSUME NEW d \in Cores, Deleting(d, s) PROVE FALSE
      OBVIOUS
    <3>1. epoch[s] = Epoch("full", ep[d].value + 1)
      BY <1>0 DEF DeleteInv
    <3> QED
      BY <3>1, <1>4 DEF Epoch
  <2> QED
    BY <1>0, <1>4, <2>1, <2>2 DEF DeleteInv
<1>8. /\ pc'[c] = "get_move" /\ hot'[c] = s /\ sp'[c] = NoSpan
      /\ \A d \in Cores \ {c} :
           pc'[d] = pc[d] /\ ep'[d] = ep[d] /\ hot'[d] = hot[d] /\ sp'[d] = sp[d]
  BY <1>1, <1>3
<1>9. epoch'[s] = e /\ \A t \in Spans \ {s} : epoch'[t] = epoch[t]
  BY <1>1, <1>3
<1>10. \A d \in Cores : \A t : Deleting(d, t)' <=> Deleting(d, t)
  BY <1>2, <1>8 DEF Deleting
<1>11. \A d \in Cores : \A t : InList(d, t)' <=> InList(d, t)
  BY <1>3 DEF InList
<1>12. \A d \in Cores : \A t : Carries(d, t)' => Carries(d, t) /\ t # s
  <2>1. \A d \in Cores : \A t : Carries(d, t)' => Carries(d, t) /\ d # c
    BY <1>3, <1>8 DEF Carries, Popping
  <2>2. \A d \in Cores : Carries(d, s) => d = c
    BY <1>0, <1>2, <1>3, IdsApart DEF Carries
  <2> QED
    BY <2>1, <2>2
<1>13. \A d \in Cores : ListAccepts(d)' <=> ListAccepts(d)
  BY <1>3 DEF ListAccepts
<1>14. \A d \in Cores, t \in Spans : Links(d, t)' => Links(d, t) /\ t # s
  <2>1. ASSUME NEW d \in Cores, Links(d, s)' PROVE FALSE
    <3>1. pc[d] = "free_link" /\ sp[d] = s /\ d # c /\ ep'[d] = ep[d] /\ ep[d] \in Epochs
      BY <2>1, <1>1, <1>8 DEF Links
    <3>2. ep[d].value + 1 <= epoch[s].value
      BY <1>0, <3>1 DEF EpochInv, EpochOf
    <3>3. e.value # ep[d].value + 1
      BY <3>1, <3>2, <1>4, EpochFields
    <3> QED
      BY <2>1, <3>1, <3>3, <1>7, <1>9, <1>10 DEF Links
  <2>2. ASSUME NEW d \in Cores, NEW t \in Spans, t # s, Links(d, t)' PROVE Links(d, t)
    <3>1. d # c /\ epoch'[t] = epoch[t]
      BY <2>2, <1>8, <1>9 DEF Links
    <3> QED
      BY <2>2, <3>1, <1>8, <1>10, <1>13 DEF Links
  <2> QED
    BY <2>1, <2>2
<1>15. \A i : Over(i)' <=> Over(i)
  BY <1>3 DEF Over
<1>20. IdInv'
  BY <1>0, <1>2, <1>3, <1>8 DEF IdInv
<1>21. CoreInv'
  <2>1. "get_move" \notin Busy /\ "get_move" \notin Cold /\ "get_move" \notin Informed
    BY DEF Busy, Freeing, Informed, Popping, Cold
  <2>2. s \notin fresh /\ s # NoSpan /\ NoSpan \notin fresh
    BY <1>0, <1>2, NullAssumption DEF TypeOK
  <2> QED
    BY <1>0, <1>3, <1>8, <1>15, <2>1, <2>2 DEF CoreInv
<1>22. FreshInv'
  BY <1>0, <1>2, <1>3, <1>9, <1>11 DEF FreshInv
<1>23. HotInv'
  BY <1>0, <1>1, <1>3, <1>4, <1>6, <1>7, <1>8, <1>9, <1>10, <1>11 DEF HotInv
<1>24. MarkInv'
  BY <1>0, <1>2, <1>3, <1>4, <1>8, <1>9, <1>10, NullAssumption DEF MarkInv
<1>25. DeleteInv'
  <2>1. \A d \in Cores : pc'[d] \in Flying => pc[d] \in Flying /\ sp'[d] = sp[d]
    BY <1>8 DEF Flying
  <2>2. \A d \in Cores : \A t : Deleting(d, t) => ep'[d] = ep[d] /\ t # s
    BY <1>2, <1>7, <1>8 DEF Deleting
  <2> QED
    BY <1>0, <1>3, <1>7, <1>9, <1>10, <1>11, <2>1, <2>2 DEF DeleteInv
<1>26. EpochInv'
  <2> SUFFICES ASSUME NEW d \in Cores PROVE EpochOf(d)'
    BY DEF EpochInv
  <2>1. CASE d = c
    BY <2>1, <1>8, EpochIdle DEF Freeing
  <2>2. CASE d # c /\ sp[d] = s
    BY <2>2, <1>0, <1>4, <1>8, <1>9, EpochBumped
  <2>3. CASE d # c /\ sp[d] # s
    BY <2>3, <1>0, <1>3, <1>8, <1>9, <1>10, <1>11, <1>13, <1>14, EpochElsewhere
  <2> QED
    BY <2>1, <2>2, <2>3
<1>27. LinkInv'
  BY <1>0, <1>3, <1>6, <1>9, <1>10, <1>11, <1>12, <1>14 DEF LinkInv
<1>28. OnceInv'
  BY <1>0, <1>3 DEF OnceInv
<1> QED
  BY <1>20, <1>21, <1>22, <1>23, <1>24, <1>25, <1>26, <1>27, <1>28 DEF Structure


-----------------------------------------------------------------------------
(* Counting *)

LEMMA InFlightFacts ==
  ASSUME NEW s
  PROVE  /\ InFlight(s) \in Nat
         /\ InFlight(s) = 0 <=> \A d \in Cores : sp[d] = s => pc[d] \notin Flying
<1> DEFINE S == {c \in Cores : sp[c] = s /\ pc[c] \in {"free_owner", "free_push"}}
<1>1. S \in SUBSET Cores
  OBVIOUS
<1>2. IsFiniteSet(S) /\ Cardinality(S) \in Nat
  BY <1>1, CoresAssumption, FS_Subset, FS_CardinalityType
<1>3. Cardinality(S) = 0 <=> S = {}
  BY <1>2, FS_EmptySet
<1> QED
  BY <1>2, <1>3 DEF InFlight, Flying

(* Where the numbers of objects lie *)
LEMMA Amounts ==
  ASSUME TypeOK, NEW s \in Spans
  PROVE  /\ local[s] \in Nat /\ remote[s] \in Nat /\ live[s] \in Nat /\ visible[s] \in Nat
         /\ local[s] <= K /\ remote[s] <= K /\ live[s] <= K /\ visible[s] <= K
         /\ K \in Nat /\ InFlight(s) \in Nat
<1>1. /\ local[s] \in 0 .. K /\ remote[s] \in 0 .. K /\ live[s] \in 0 .. K
      /\ visible[s] \in 0 .. K
  BY DEF TypeOK
<1> QED
  BY <1>1, ObjectsAssumption, InFlightFacts

(* A count that reaches K, with the epoch as it was when the free began,   *)
(* is no accident of reading two lengths one after the other: all objects  *)
(* of the span are free.                                                   *)
LEMMA FullMeansFree ==
  ASSUME Sound, NEW c \in Cores, pc[c] = "free_mark", AllFree(c),
         sp[c] \in Spans, epoch[sp[c]] = ep[c]
  PROVE  live[sp[c]] = 0 /\ \A d \in Cores : sp[d] = sp[c] => pc[d] \notin Flying
<1>1. PICK s \in Spans : s = sp[c]
  OBVIOUS
<1>2. Still(c)
  BY DEF Still, Freeing, AllFree
<1>3. cnt[c] <= local[s] + remote[s] /\ cnt[c] = K
  BY <1>1, <1>2 DEF Sound, CountInv, AllFree
<1>4. s \notin fresh
  BY <1>1 DEF Sound, Structure, CoreInv
<1>5. local[s] + remote[s] + live[s] + InFlight(s) = K
  BY <1>4 DEF Sound, CountInv, ObjectsConserved
<1>6. live[s] = 0 /\ InFlight(s) = 0
  BY <1>3, <1>5, Amounts DEF Sound
<1> QED
  BY <1>1, <1>6, InFlightFacts


-----------------------------------------------------------------------------
(* Marks of frees *)

(* A span that is neither hot nor full is nobody's to delete or to use. *)
LEMMA Floating ==
  ASSUME Sound, NEW s \in Spans, epoch[s].mark \in {"none", "reuse"}
  PROVE  s \notin pool /\ \A d \in Cores : ~Deleting(d, s) /\ hot[d] # s
<1>0. TypeOK /\ HotInv /\ DeleteInv
  BY StructureParts
<1>1. \A d \in Cores : hot[d] # s
  BY <1>0, NullAssumption DEF HotInv
<1>2. \A d \in Cores : ~Deleting(d, s)
  <2> SUFFICES ASSUME NEW d \in Cores, Deleting(d, s) PROVE FALSE
    OBVIOUS
  <2>1. epoch[s] = Epoch("full", ep[d].value + 1)
    BY <1>0 DEF DeleteInv
  <2> QED
    BY <2>1 DEF Epoch
<1> QED
  BY <1>0, <1>1, <1>2 DEF DeleteInv

(* NewMarkFull: from now on the span is this free's to delete. *)
LEMMA FreeFullKeeps ==
  ASSUME Sound, NEW c \in Cores, FreeFull(c), pc'[c] # "idle"
  PROVE  Structure'
<1>0. /\ TypeOK /\ IdInv /\ CoreInv /\ FreshInv /\ HotInv /\ MarkInv /\ DeleteInv
      /\ EpochInv /\ LinkInv /\ OnceInv
  BY StructureParts
<1>1. /\ sp \in [Cores -> Spans \cup {NoSpan}] /\ hot \in [Cores -> Spans \cup {NoSpan}]
      /\ ow \in [Cores -> CoreIds] /\ pc \in [Cores -> Labels] /\ ep \in [Cores -> Epochs]
      /\ epoch \in [Spans -> Epochs]
  BY <1>0 DEF TypeOK
<1>2. /\ pc[c] = "free_mark" /\ sp[c] \in Spans /\ sp[c] \notin fresh
      /\ id[c] # kTerminated /\ AllFree(c)
  BY <1>0, <1>1, Labelled DEF FreeFull, CoreInv, Freeing, Busy, IdInv
<1> PICK s \in Spans : s = sp[c]
  BY <1>2
<1> PICK e : e = Marked(ep[c], "full")
  OBVIOUS
<1>3. /\ epoch[s] = ep[c] /\ EpochBound(ep[c])
      /\ epoch' = [epoch EXCEPT ![s] = e]
      /\ UNCHANGED << owner, live, pool, fresh, id, hot, rspans, opened, threads, op, sp, ep, ow >>
      /\ \E l \in {"free_unlink", "free_delete"} : pc' = [pc EXCEPT ![c] = l]
  <2>1. OnlyReuse(ep[c]) = ep[c]
    BY <1>1, <1>2, OnlyReuseType DEF AllFree
  <2> QED
    BY <1>1, <1>2, <2>1 DEF FreeFull, Exchange, ExchangeFails, Goto, Done, coreVars
<1>4. /\ e \in Epochs /\ e.mark = "full" /\ e.value = epoch[s].value + 1
      /\ e = Epoch("full", ep[c].value + 1)
      /\ epoch[s].mark \in {"none", "reuse"} /\ epoch[s].value \in Nat
  <2>1. ep[c] \in Epochs /\ ep[c].mark \in {"none", "reuse"}
    BY <1>1, <1>2, EpochFields DEF AllFree, IsFloatingOrReusable, IsFull, IsHot, Marks
  <2> QED
    BY <1>3, <2>1, MarkedType, EpochFields DEF Marks, Marked
<1>5. live[s] = 0 /\ \A d \in Cores : sp[d] = s => pc[d] \notin Flying
  BY <1>2, <1>3, FullMeansFree
<1>7. s \notin pool /\ \A d \in Cores : ~Deleting(d, s) /\ hot[d] # s
  BY <1>4, Floating
<1>8. /\ pc'[c] \in {"free_unlink", "free_delete"}
      /\ \A d \in Cores \ {c} : pc'[d] = pc[d]
  BY <1>1, <1>3
<1>9. epoch'[s] = e /\ \A t \in Spans \ {s} : epoch'[t] = epoch[t]
  BY <1>1, <1>3
<1>10. \A d \in Cores : \A t : Deleting(d, t)' <=> Deleting(d, t) \/ (d = c /\ t = s)
  BY <1>2, <1>3, <1>8 DEF Deleting
<1>11. \A d \in Cores : \A t : InList(d, t)' <=> InList(d, t)
  BY <1>3 DEF InList
<1>12. \A d \in Cores : \A t : Carries(d, t)' => Carries(d, t)
  BY <1>3, <1>8 DEF Carries, Popping
<1>13. \A d \in Cores : ListAccepts(d)' <=> ListAccepts(d)
  BY <1>3 DEF ListAccepts
<1>14. \A d \in Cores, t \in Spans : Links(d, t)' => Links(d, t)
  <2>1. ASSUME NEW d \in Cores, Links(d, s)' PROVE Links(d, s)
    <3>1. /\ pc[d] = "free_link" /\ sp[d] = s /\ d # c /\ ep'[d] = ep[d] /\ ep[d] \in Epochs
          /\ ListAccepts(d)
      BY <2>1, <1>1, <1>3, <1>8, <1>13 DEF Links
    <3>2. ep[d].value + 1 <= epoch[s].value
      BY <1>0, <3>1 DEF EpochInv, EpochOf
    <3>3. e.value # ep[d].value + 1
      BY <3>1, <3>2, <1>4, EpochFields
    <3>4. e.value = ep[d].value + 2
      BY <2>1, <3>1, <3>3, <1>9 DEF Links
    <3>5. epoch[s].value = ep[d].value + 1
      BY <3>1, <3>4, <1>4, EpochFields
    <3> QED
      BY <3>1, <3>5 DEF Links
  <2>2. ASSUME NEW d \in Cores, NEW t \in Spans, t # s, Links(d, t)' PROVE Links(d, t)
    <3>1. d # c /\ epoch'[t] = epoch[t]
      BY <2>2, <1>8, <1>9 DEF Links
    <3> QED
      BY <2>2, <3>1, <1>3, <1>8, <1>10, <1>13 DEF Links
  <2> QED
    BY <2>1, <2>2
<1>15. \A i : Over(i)' <=> Over(i)
  BY <1>3 DEF Over
<1>20. IdInv'
  BY <1>0, <1>2, <1>3, <1>8 DEF IdInv
<1>21. CoreInv'
  <2>1. /\ pc'[c] \in Busy /\ pc'[c] \notin Cold /\ pc'[c] \notin Hot
        /\ pc[c] \in Busy /\ pc[c] \in Informed
    BY <1>2, <1>8 DEF Busy, Freeing, Informed, Popping, Cold, Hot
  <2> QED
    BY <1>0, <1>3, <1>8, <1>15, <2>1 DEF CoreInv
<1>22. FreshInv'
  BY <1>0, <1>2, <1>3, <1>9, <1>11 DEF FreshInv
<1>23. HotInv'
  <2>1. pc'[c] # "float_store"
    BY <1>8
  <2> QED
    BY <1>0, <1>1, <1>3, <1>7, <1>8, <1>9, <1>10, <1>11, <2>1 DEF HotInv
<1>24. MarkInv'
  BY <1>0, <1>3, <1>4, <1>9, <1>10 DEF MarkInv
<1>25. DeleteInv'
  <2>1. \A d \in Cores : pc'[d] \in Flying => pc[d] \in Flying
    BY <1>8 DEF Flying
  <2>2. \A d \in Cores : ~Deleting(d, s)
    BY <1>7
  <2>3. ASSUME NEW t \in Spans, t # s
        PROVE  /\ epoch'[t] = epoch[t] /\ live'[t] = live[t]
               /\ \A d \in Cores : Deleting(d, t)' <=> Deleting(d, t)
    BY <2>3, <1>3, <1>9, <1>10
  <2>4. ASSUME NEW d \in Cores, Deleting(d, s)'
        PROVE  d = c /\ epoch'[s] = Epoch("full", ep'[d].value + 1)
    BY <2>2, <2>4, <1>3, <1>4, <1>9, <1>10
  <2> QED
    BY <1>0, <1>3, <1>5, <1>7, <1>11, <2>1, <2>3, <2>4 DEF DeleteInv
<1>26. EpochInv'
  <2> SUFFICES ASSUME NEW d \in Cores PROVE EpochOf(d)'
    BY DEF EpochInv
  <2>1. CASE d = c
    BY <2>1, <1>8, EpochIdle DEF Freeing
  <2>2. CASE d # c /\ sp[d] = s
    BY <2>2, <1>0, <1>3, <1>4, <1>8, <1>9, EpochBumped
  <2>3. CASE d # c /\ sp[d] # s
    BY <2>3, <1>0, <1>3, <1>8, <1>9, <1>10, <1>11, <1>13, <1>14, EpochElsewhere
  <2> QED
    BY <2>1, <2>2, <2>3
<1>27. LinkInv'
  BY <1>0, <1>3, <1>4, <1>9, <1>10, <1>11, <1>12, <1>14 DEF LinkInv
<1>28. OnceInv'
  BY <1>0, <1>3 DEF OnceInv
<1> QED
  BY <1>20, <1>21, <1>22, <1>23, <1>24, <1>25, <1>26, <1>27, <1>28 DEF Structure


(* NewMarkReuse: this free alone will link the span. *)
LEMMA FreeReuseKeeps ==
  ASSUME Sound, NEW c \in Cores, FreeReuse(c), pc'[c] # "idle"
  PROVE  Structure'
<1>0. /\ TypeOK /\ IdInv /\ CoreInv /\ FreshInv /\ HotInv /\ MarkInv /\ DeleteInv
      /\ EpochInv /\ LinkInv /\ OnceInv
  BY StructureParts
<1>1. /\ sp \in [Cores -> Spans \cup {NoSpan}] /\ hot \in [Cores -> Spans \cup {NoSpan}]
      /\ ow \in [Cores -> CoreIds] /\ pc \in [Cores -> Labels] /\ ep \in [Cores -> Epochs]
      /\ epoch \in [Spans -> Epochs]
  BY <1>0 DEF TypeOK
<1>2. /\ pc[c] = "free_mark" /\ sp[c] \in Spans /\ sp[c] \notin fresh
      /\ id[c] # kTerminated /\ ow[c] # kTerminated
  BY <1>0, <1>1, Labelled DEF FreeReuse, CoreInv, Freeing, Informed, Busy, IdInv
<1> PICK s \in Spans : s = sp[c]
  BY <1>2
<1> PICK e : e = Marked(OnlyValue(ep[c]), "reuse")
  OBVIOUS
<1>3. /\ epoch[s] = OnlyValue(ep[c]) /\ EpochBound(OnlyValue(ep[c]))
      /\ epoch' = [epoch EXCEPT ![s] = e]
      /\ UNCHANGED << owner, live, pool, fresh, id, hot, rspans, opened, threads, op, sp, ep, ow >>
      /\ pc' = [pc EXCEPT ![c] = "free_link"]
  BY <1>1, <1>2 DEF FreeReuse, Exchange, ExchangeFails, Goto, Done, coreVars
<1>4. /\ e \in Epochs /\ e.mark = "reuse" /\ e.value = epoch[s].value + 1
      /\ e.value = ep[c].value + 1 /\ ep[c].value = epoch[s].value
      /\ epoch[s].mark = "none" /\ epoch[s].value \in Nat
  <2>1. OnlyValue(ep[c]) \in Epochs /\ OnlyValue(ep[c]).mark = "none" /\ OnlyValue(ep[c]).value = ep[c].value
    BY <1>1, OnlyValueType
  <2> QED
    BY <1>3, <2>1, MarkedType, EpochFields DEF Marks
<1>5. owner[s] = ow[c] \/ Over(ow[c])
  BY <1>0, <1>2, <1>4 DEF EpochInv, EpochOf, Current, Freeing, Informed
<1>6. /\ \A d \in Cores : ~InList(d, s) /\ ~Carries(d, s)
  BY <1>0, <1>4, Floating DEF LinkInv
<1>7. s \notin pool /\ \A d \in Cores : ~Deleting(d, s) /\ hot[d] # s
  BY <1>4, Floating
<1>8. pc'[c] = "free_link" /\ \A d \in Cores \ {c} : pc'[d] = pc[d]
  BY <1>1, <1>3
<1>9. epoch'[s] = e /\ \A t \in Spans \ {s} : epoch'[t] = epoch[t]
  BY <1>1, <1>3
<1>10. \A d \in Cores : \A t : Deleting(d, t)' <=> Deleting(d, t)
  BY <1>2, <1>3, <1>8 DEF Deleting
<1>11. \A d \in Cores : \A t : InList(d, t)' <=> InList(d, t)
  BY <1>3 DEF InList
<1>12. \A d \in Cores : \A t : Carries(d, t)' => Carries(d, t)
  BY <1>3, <1>8 DEF Carries, Popping
<1>13. \A d \in Cores : ListAccepts(d)' <=> ListAccepts(d)
  BY <1>3 DEF ListAccepts
<1>14. \A d \in Cores, t \in Spans :
         Links(d, t)' => \/ Links(d, t) /\ t # s
                         \/ d = c /\ t = s /\ owner[s] = ow[c]
  <2>1. ASSUME NEW d \in Cores, Links(d, s)' PROVE d = c /\ owner[s] = ow[c]
    <3>1. /\ pc'[d] = "free_link" /\ sp[d] = s /\ ep'[d] = ep[d] /\ ep[d] \in Epochs
          /\ ListAccepts(d)
      BY <2>1, <1>1, <1>3, <1>13 DEF Links
    <3>2. CASE d # c
      <4>1. ep[d].value + 1 <= epoch[s].value
        BY <1>0, <1>8, <3>1, <3>2 DEF EpochInv, EpochOf
      <4>2. e.value # ep[d].value + 1
        BY <3>1, <4>1, <1>4, EpochFields
      <4> QED
        BY <2>1, <3>1, <4>2, <1>7, <1>9, <1>10 DEF Links
    <3>3. CASE d = c
      BY <3>1, <3>3, <1>0, <1>2, <1>5, OpenAlive
    <3> QED
      BY <3>2, <3>3
  <2>2. ASSUME NEW d \in Cores, NEW t \in Spans, t # s, Links(d, t)' PROVE Links(d, t)
    <3>1. d # c /\ epoch'[t] = epoch[t]
      BY <2>2, <1>3, <1>9 DEF Links
    <3> QED
      BY <2>2, <3>1, <1>3, <1>8, <1>10, <1>13 DEF Links
  <2> QED
    BY <2>1, <2>2
<1>15. \A i : Over(i)' <=> Over(i)
  BY <1>3 DEF Over
<1>20. IdInv'
  BY <1>0, <1>2, <1>3, <1>8 DEF IdInv
<1>21. CoreInv'
  <2>1. /\ pc'[c] \in Busy /\ pc'[c] \notin Cold /\ pc'[c] \notin Hot
        /\ pc[c] \in Busy /\ pc[c] \in Informed
    BY <1>2, <1>8 DEF Busy, Freeing, Informed, Popping, Cold, Hot
  <2> QED
    BY <1>0, <1>3, <1>8, <1>15, <2>1 DEF CoreInv
<1>22. FreshInv'
  BY <1>0, <1>2, <1>3, <1>9, <1>11 DEF FreshInv
<1>23. HotInv'
  <2>1. pc'[c] # "float_store"
    BY <1>8
  <2> QED
    BY <1>0, <1>1, <1>3, <1>7, <1>8, <1>9, <1>10, <1>11, <2>1 DEF HotInv
<1>24. MarkInv'
  BY <1>0, <1>3, <1>4, <1>9, <1>10 DEF MarkInv
<1>25. DeleteInv'
  <2>1. \A d \in Cores : pc'[d] \in Flying => pc[d] \in Flying
    BY <1>8 DEF Flying
  <2> QED
    BY <1>0, <1>3, <1>7, <1>9, <1>10, <1>11, <2>1 DEF DeleteInv
<1>26. EpochInv'
  <2> SUFFICES ASSUME NEW d \in Cores PROVE EpochOf(d)'
    BY DEF EpochInv
  <2>1. CASE d = c
    BY <2>1, <1>3, <1>4, <1>8, <1>9 DEF EpochOf, Current, Freeing
  <2>2. CASE d # c /\ sp[d] = s
    BY <2>2, <1>0, <1>3, <1>4, <1>8, <1>9, EpochBumped
  <2>3. CASE d # c /\ sp[d] # s
    BY <2>3, <1>0, <1>3, <1>8, <1>9, <1>10, <1>11, <1>13, <1>14, EpochElsewhere
  <2> QED
    BY <2>1, <2>2, <2>3
<1>27. LinkInv'
  BY <1>0, <1>3, <1>4, <1>6, <1>9, <1>10, <1>11, <1>12, <1>14 DEF LinkInv
<1>28. OnceInv'
  BY <1>0, <1>3 DEF OnceInv
<1> QED
  BY <1>20, <1>21, <1>22, <1>23, <1>24, <1>25, <1>26, <1>27, <1>28 DEF Structure

(* TryMarkFloating: it succeeds only on a span that a dead owner left      *)
(* behind, marked reusable and in no list.                                 *)
LEMMA FreeUnmarkKeeps ==
  ASSUME Sound, NEW c \in Cores, FreeUnmark(c), epoch' # epoch
  PROVE  Structure'
<1>0. /\ TypeOK /\ IdInv /\ CoreInv /\ FreshInv /\ HotInv /\ MarkInv /\ DeleteInv
      /\ EpochInv /\ LinkInv /\ OnceInv
  BY StructureParts
<1>1. /\ sp \in [Cores -> Spans \cup {NoSpan}] /\ hot \in [Cores -> Spans \cup {NoSpan}]
      /\ ow \in [Cores -> CoreIds] /\ pc \in [Cores -> Labels] /\ ep \in [Cores -> Epochs]
      /\ epoch \in [Spans -> Epochs]
  BY <1>0 DEF TypeOK
<1>2. /\ pc[c] = "free_unmark" /\ sp[c] \in Spans /\ sp[c] \notin fresh
      /\ id[c] # kTerminated
  BY <1>0, <1>1, Labelled DEF FreeUnmark, CoreInv, Freeing, Busy, IdInv
<1> PICK s \in Spans : s = sp[c]
  BY <1>2
<1> PICK e : e = OnlyValue(ep[c])
  OBVIOUS
<1>3. /\ epoch[s] = ep[c] /\ epoch' = [epoch EXCEPT ![s] = e]
      /\ UNCHANGED << owner, live, pool, fresh, id, hot, rspans, opened, threads, op, sp, ep, ow >>
      /\ pc' = [pc EXCEPT ![c] = "free_mark"]
  BY <1>1, <1>2 DEF FreeUnmark, Exchange, ExchangeFails, Goto, coreVars
<1>4. /\ e \in Epochs /\ e.mark = "none" /\ e.value = epoch[s].value /\ epoch[s].mark # "none"
      /\ epoch[s].value \in Nat
  <2>1. e \in Epochs /\ e.mark = "none" /\ e.value = ep[c].value /\ (ep[c].mark = "none" => e = ep[c])
    BY <1>1, OnlyValueType
  <2>2. ep[c].mark # "none"
    BY <1>1, <1>3, <2>1
  <2> QED
    BY <1>1, <1>3, <2>1, <2>2, EpochFields
<1>5. /\ owner[s] = id[c] /\ epoch[s].mark = "reuse"
      /\ \A d \in Cores : ~InList(d, s) /\ ~Links(d, s)
  BY <1>0, <1>2, <1>3, <1>4 DEF EpochInv, EpochOf
<1>6. \A d \in Cores : ~Carries(d, s)
  BY <1>0, <1>2, <1>5, IdsApart DEF Carries, Popping
<1>7. s \notin pool /\ \A d \in Cores : ~Deleting(d, s) /\ hot[d] # s
  BY <1>5, Floating
<1>8. pc'[c] = "free_mark" /\ \A d \in Cores \ {c} : pc'[d] = pc[d]
  BY <1>1, <1>3
<1>9. /\ epoch'[s] = e /\ \A t \in Spans \ {s} : epoch'[t] = epoch[t]
      /\ \A t \in Spans : epoch'[t] \in Epochs /\ epoch'[t].value = epoch[t].value
      /\ \A t \in Spans : Past(epoch[t], epoch'[t])
  BY <1>1, <1>3, <1>4 DEF Past
<1>10. \A d \in Cores : \A t : Deleting(d, t)' <=> Deleting(d, t)
  BY <1>2, <1>3, <1>8 DEF Deleting
<1>11. \A d \in Cores : \A t : InList(d, t)' <=> InList(d, t)
  BY <1>3 DEF InList
<1>12. \A d \in Cores : \A t : Carries(d, t)' => Carries(d, t)
  BY <1>3, <1>8 DEF Carries, Popping
<1>13. \A d \in Cores : ListAccepts(d)' <=> ListAccepts(d)
  BY <1>3 DEF ListAccepts
<1>14. \A d \in Cores, t \in Spans : Links(d, t)' => Links(d, t)
  BY <1>3, <1>8, <1>9, <1>10, <1>13 DEF Links
<1>15. \A i : Over(i)' <=> Over(i)
  BY <1>3 DEF Over
<1>20. IdInv'
  BY <1>0, <1>2, <1>3, <1>8 DEF IdInv
<1>21. CoreInv'
  <2>1. /\ pc'[c] \in Busy /\ pc'[c] \notin Cold /\ pc'[c] \notin Hot
        /\ pc[c] \in Busy /\ pc[c] \in Informed
    BY <1>2, <1>8 DEF Busy, Freeing, Informed, Popping, Cold, Hot
  <2> QED
    BY <1>0, <1>3, <1>8, <1>15, <2>1 DEF CoreInv
<1>22. FreshInv'
  BY <1>0, <1>2, <1>3, <1>9, <1>11 DEF FreshInv
<1>23. HotInv'
  <2>1. pc'[c] # "float_store"
    BY <1>8
  <2> QED
    BY <1>0, <1>1, <1>3, <1>7, <1>8, <1>9, <1>10, <1>11, <2>1 DEF HotInv
<1>24. MarkInv'
  BY <1>0, <1>3, <1>4, <1>9, <1>10 DEF MarkInv
<1>25. DeleteInv'
  <2>1. \A d \in Cores : pc'[d] \in Flying => pc[d] \in Flying
    BY <1>8 DEF Flying
  <2> QED
    BY <1>0, <1>3, <1>7, <1>9, <1>10, <1>11, <2>1 DEF DeleteInv
<1>26. EpochInv'
  <2> SUFFICES ASSUME NEW d \in Cores PROVE EpochOf(d)'
    BY DEF EpochInv
  <2>0. EpochOf(d)
    BY <1>0 DEF EpochInv
  <2>1. CASE d = c
    <3>1. Past(ep'[c], epoch'[s]) /\ sp'[c] = s
      BY <1>3, <1>9
    <3>2. Current(c)
      BY <1>2, <1>3 DEF Current, Freeing
    <3>3. Over(ow[c]) => Over(ow[c])'
      BY <1>3 DEF Over
    <3> QED
      BY <2>0, <2>1, <3>1, <3>2, <3>3, <1>2, <1>3, <1>8, <1>10 DEF EpochOf, Freeing, Informed
  <2>2. CASE d # c /\ sp[d] # s
    BY <2>2, <1>0, <1>3, <1>8, <1>9, <1>10, <1>11, <1>13, <1>14, EpochElsewhere
  <2>3. CASE d # c /\ sp[d] = s
    <3>1. /\ pc'[d] = pc[d] /\ ep'[d] = ep[d] /\ sp'[d] = s /\ ow'[d] = ow[d] /\ ep[d] \in Epochs
          /\ Current(d)' <=> Current(d)
      BY <1>1, <1>3, <1>8, <1>9, <2>3 DEF Current
    <3>2. pc[d] \in Freeing => Past(ep[d], e)
      BY <1>1, <1>9, <2>0, <2>3, <3>1, PastGoesOn DEF EpochOf
    <3>3. pc[d] = "free_unmark" => ep[d] # e
      <4> SUFFICES ASSUME pc[d] = "free_unmark", ep[d] = e PROVE FALSE
        OBVIOUS
      <4>1. Past(e, epoch[s])
        BY <2>0, <2>3 DEF EpochOf, Freeing
      <4> QED
        BY <4>1, <1>1, <1>4, EpochFields DEF Past
    <3>4. pc[d] = "free_link" /\ ListAccepts(d) => epoch[s].value # ep[d].value + 1
      BY <1>5, <2>3 DEF Links
    <3> QED
      BY <1>3, <1>9, <1>10, <1>13, <1>15, <2>0, <2>3, <3>1, <3>2, <3>3, <3>4 DEF EpochOf
  <2> QED
    BY <2>1, <2>2, <2>3
<1>27. LinkInv'
  BY <1>0, <1>3, <1>5, <1>6, <1>9, <1>10, <1>11, <1>12, <1>14 DEF LinkInv
<1>28. OnceInv'
  BY <1>0, <1>3 DEF OnceInv
<1> QED
  BY <1>20, <1>21, <1>22, <1>23, <1>24, <1>25, <1>26, <1>27, <1>28 DEF Structure


-----------------------------------------------------------------------------
(* Owners *)

(* TryReviveNew: an owner that is over has no hot span, no list and no     *)
(* free that could still link the span.                                    *)
LEMMA FreeReviveKeeps ==
  ASSUME Sound, NEW c \in Cores, FreeRevive(c), pc'[c] = "free_unmark"
  PROVE  Structure'
<1>0. /\ TypeOK /\ IdInv /\ CoreInv /\ FreshInv /\ HotInv /\ MarkInv /\ DeleteInv
      /\ EpochInv /\ LinkInv /\ OnceInv
  BY StructureParts
<1>1. /\ sp \in [Cores -> Spans \cup {NoSpan}] /\ hot \in [Cores -> Spans \cup {NoSpan}]
      /\ ow \in [Cores -> CoreIds] /\ pc \in [Cores -> Labels] /\ ep \in [Cores -> Epochs]
      /\ epoch \in [Spans -> Epochs] /\ owner \in [Spans -> CoreIds]
  BY <1>0 DEF TypeOK
<1>2. /\ pc[c] = "free_revive" /\ sp[c] \in Spans /\ sp[c] \notin fresh
      /\ id[c] # kTerminated /\ Over(ow[c])
  BY <1>0, <1>1, Labelled DEF FreeRevive, CoreInv, Freeing, Busy, IdInv
<1> PICK s \in Spans : s = sp[c]
  BY <1>2
<1>3. /\ owner[s] = ow[c] /\ owner' = [owner EXCEPT ![s] = id[c]]
      /\ ow' = [ow EXCEPT ![c] = id[c]] /\ pc' = [pc EXCEPT ![c] = "free_unmark"]
      /\ UNCHANGED << epoch, live, pool, fresh, id, hot, rspans, opened, threads, op, sp, ep >>
  BY <1>1, <1>2 DEF FreeRevive, Goto, coreVars
<1>4. \A d \in Cores : owner[s] # id[d]
  BY <1>2, <1>3 DEF Over
<1>5. \A d \in Cores : hot[d] # s /\ ~InList(d, s) /\ ~Carries(d, s)
  BY <1>0, <1>4, NullAssumption DEF HotInv, LinkInv, Carries
<1>6. \A d \in Cores : ~Links(d, s)
  <2> SUFFICES ASSUME NEW d \in Cores, Links(d, s) PROVE FALSE
    OBVIOUS
  <2>1. ow[d] = ow[c]
    BY <1>0, <1>3 DEF LinkInv
  <2>2. ListAccepts(d) /\ ow[d] # kTerminated
    BY <1>0, Labelled DEF Links, CoreInv
  <2> QED
    BY <1>0, <1>2, <2>1, <2>2, OpenAlive
<1>8. /\ pc'[c] = "free_unmark" /\ ow'[c] = id[c]
      /\ \A d \in Cores \ {c} : pc'[d] = pc[d] /\ ow'[d] = ow[d]
  BY <1>1, <1>3
<1>9. owner'[s] = id[c] /\ \A t \in Spans \ {s} : owner'[t] = owner[t]
  BY <1>1, <1>3
<1>10. \A d \in Cores : \A t : Deleting(d, t)' <=> Deleting(d, t)
  BY <1>2, <1>3, <1>8 DEF Deleting
<1>11. \A d \in Cores : \A t : InList(d, t)' <=> InList(d, t)
  BY <1>3 DEF InList
<1>12. \A d \in Cores, t \in Spans : Carries(d, t)' => Carries(d, t) /\ t # s
  <2>1. \A d \in Cores : ~Carries(d, s)'
    BY <1>0, <1>2, <1>3, <1>8, <1>9, IdsApart DEF Carries, Popping
  <2> QED
    BY <2>1, <1>2, <1>3, <1>8, <1>9 DEF Carries, Popping
<1>13. \A d \in Cores \ {c} : ListAccepts(d)' <=> ListAccepts(d)
  BY <1>3, <1>8 DEF ListAccepts
<1>14. \A d \in Cores, t \in Spans : Links(d, t)' => Links(d, t) /\ d # c /\ t # s
  BY <1>3, <1>6, <1>8, <1>10, <1>13 DEF Links
<1>15. \A i : Over(i)' <=> Over(i)
  BY <1>3 DEF Over
<1>20. IdInv'
  <2>1. pc'[c] # "dead" /\ pc'[c] \notin {"drain", "terminate", "float_load", "float_store"}
    BY <1>8
  <2> QED
    BY <1>0, <1>2, <1>3, <1>8, <1>9, <2>1 DEF IdInv
<1>21. CoreInv'
  <2>1. /\ pc'[c] \in Busy /\ pc'[c] \notin Cold /\ pc'[c] \notin Hot /\ pc[c] \in Busy
    BY <1>2, <1>8 DEF Busy, Freeing, Informed, Popping, Cold, Hot
  <2>2. pc'[c] \notin {"free_revive", "terminate"}
    BY <1>8
  <2> QED
    BY <1>0, <1>2, <1>3, <1>8, <1>15, <2>1, <2>2 DEF CoreInv
<1>22. FreshInv'
  BY <1>0, <1>2, <1>3, <1>9, <1>11 DEF FreshInv
<1>23. HotInv'
  <2>1. pc'[c] # "float_store"
    BY <1>8
  <2> QED
    BY <1>0, <1>1, <1>3, <1>5, <1>8, <1>9, <1>10, <1>11, <2>1 DEF HotInv
<1>24. MarkInv'
  BY <1>0, <1>3, <1>10 DEF MarkInv
<1>25. DeleteInv'
  <2>1. \A d \in Cores : pc'[d] \in Flying => pc[d] \in Flying
    BY <1>8 DEF Flying
  <2> QED
    BY <1>0, <1>3, <1>10, <1>11, <2>1 DEF DeleteInv
<1>26. EpochInv'
  <2> SUFFICES ASSUME NEW d \in Cores PROVE EpochOf(d)'
    BY DEF EpochInv
  <2>0. EpochOf(d)
    BY <1>0 DEF EpochInv
  <2>1. CASE d = c
    <3>1. /\ Current(c)' <=> Current(c)
          /\ Current(c) => s \notin pool /\ \A f \in Cores : ~Deleting(f, s)
          /\ Past(ep[c], epoch[s])
      BY <2>0, <2>1, <1>2, <1>3, <1>8 DEF EpochOf, Current, Freeing
    <3>2. ep[c] = epoch[s] => ep[c].mark \in {"none", "reuse"}
      <4> SUFFICES ASSUME ep[c] = epoch[s], ep[c].mark \notin {"none", "reuse"} PROVE FALSE
        OBVIOUS
      <4>1. Current(c)
        BY <1>2 DEF Current, Freeing
      <4>2. epoch[s].mark \in {"hot", "full"}
        BY <1>1, EpochFields DEF Marks
      <4> QED
        BY <3>1, <4>1, <4>2, <1>0, <1>5 DEF MarkInv
    <3>3. \A f \in Cores : ~InList(f, s)' /\ ~Links(f, s)'
      BY <1>5, <1>11, <1>14
    <3>4. sp'[c] = s /\ ep'[c] = ep[c] /\ epoch' = epoch /\ pool' = pool /\ id' = id
      BY <1>3
    <3> QED
      BY <2>1, <3>1, <3>2, <3>3, <3>4, <1>8, <1>9, <1>10 DEF EpochOf, Freeing
  <2>2. CASE d # c /\ sp[d] # s
    BY <2>2, <1>0, <1>3, <1>8, <1>9, <1>10, <1>11, <1>13, <1>14, EpochElsewhere
  <2>3. CASE d # c /\ sp[d] = s
    <3>1. pc[d] = "free_unmark" => ep[d] # epoch[s]
      BY <1>4, <2>0, <2>3 DEF EpochOf
    <3>2. Current(d) /\ pc[d] \in Informed => Over(ow[d])
      BY <1>2, <1>3, <2>0, <2>3 DEF EpochOf
    <3>3. Current(d) => s \notin pool /\ \A f \in Cores : ~Deleting(f, s)
      BY <2>0, <2>3 DEF EpochOf
    <3> QED
      BY <2>3, <3>1, <3>2, <3>3, <1>0, <1>3, <1>8, <1>10, <1>13, <1>15, EpochKept
  <2> QED
    BY <2>1, <2>2, <2>3
<1>27. LinkInv'
  BY <1>0, <1>3, <1>5, <1>8, <1>9, <1>10, <1>11, <1>12, <1>14 DEF LinkInv
<1>28. OnceInv'
  BY <1>0, <1>3 DEF OnceInv
<1> QED
  BY <1>20, <1>21, <1>22, <1>23, <1>24, <1>25, <1>26, <1>27, <1>28 DEF Structure

(* Span::New: a span of the pool keeps its epoch, one of the arena gets    *)
(* its first mark; in both cases nobody else can do anything with it.      *)
LEMMA GetNewKeeps ==
  ASSUME Sound, NEW c \in Cores, GetNew(c)
  PROVE  Structure'
<1>0. /\ TypeOK /\ IdInv /\ CoreInv /\ FreshInv /\ HotInv /\ MarkInv /\ DeleteInv
      /\ EpochInv /\ LinkInv /\ OnceInv
  BY StructureParts
<1>1. /\ sp \in [Cores -> Spans \cup {NoSpan}] /\ hot \in [Cores -> Spans \cup {NoSpan}]
      /\ ow \in [Cores -> CoreIds] /\ pc \in [Cores -> Labels] /\ ep \in [Cores -> Epochs]
      /\ epoch \in [Spans -> Epochs] /\ owner \in [Spans -> CoreIds]
      /\ pool \in SUBSET Spans /\ fresh \in SUBSET Spans
  BY <1>0 DEF TypeOK
<1>2. /\ pc[c] = "get_new" /\ id[c] # kTerminated /\ hot[c] = NoSpan
  BY <1>0 DEF GetNew, CoreInv, Cold, IdInv
<1>3. PICK s \in pool \cup fresh :
        /\ NewSpanEpoch(epoch[s]).value <= MaxEpoch
        /\ pool' = pool \ {s} /\ fresh' = fresh \ {s}
        /\ owner' = [owner EXCEPT ![s] = id[c]]
        /\ epoch' = [epoch EXCEPT ![s] = NewSpanEpoch(@)]
        /\ hot' = [hot EXCEPT ![c] = s]
  BY DEF GetNew
<1>4. /\ UNCHANGED << live, id, rspans, opened, threads, op, sp, ep, ow >>
      /\ \E l \in {"alloc", "alloc_last"} : pc' = [pc EXCEPT ![c] = l]
  BY DEF GetNew, Resume, Goto
<1>s. s \in Spans /\ s # NoSpan
  BY <1>1, <1>3, NullAssumption
<1> PICK e : e = NewSpanEpoch(epoch[s])
  OBVIOUS
<1>5. /\ e \in Epochs /\ e.mark \in {"hot", "full"}
      /\ s \in pool => e = epoch[s] /\ s \notin fresh
      /\ s \in fresh => epoch[s].value < e.value /\ \A d \in Cores : sp[d] # s
  <2>1. CASE s \in pool
    <3>1. epoch[s] \in Epochs /\ epoch[s].mark = "full" /\ s \notin fresh
      BY <2>1, <1>s, <1>0, <1>1 DEF DeleteInv, FreshInv
    <3>2. epoch[s] # OnlyReuse(epoch[s])
      BY <3>1, OnlyReuseType
    <3> QED
      BY <3>1, <3>2 DEF NewSpanEpoch
  <2>2. CASE s \in fresh
    <3>1. epoch[s] = NoEpoch /\ s \notin pool /\ epoch[s] \in Epochs
      BY <2>2, <1>s, <1>0, <1>1 DEF FreshInv
    <3>2. NoEpoch.mark = "none" /\ NoEpoch.value = 0
      BY DEF NoEpoch, Epoch
    <3>3. OnlyReuse(NoEpoch) = NoEpoch
      BY <3>1, <3>2, OnlyReuseType DEF IsFloatingOrReusable, IsFull, IsHot
    <3>4. e = Epoch("hot", 1)
      BY <3>1, <3>2, <3>3 DEF NewSpanEpoch, Marked
    <3>5. 1 \in 0 .. MaxEpoch
      BY <3>4, <1>3, BoundsAssumption DEF Epoch
    <3>6. e \in Epochs /\ e.mark = "hot" /\ e.value = 1
      BY <3>4, <3>5, EpochType DEF Marks
    <3>7. \A d \in Cores : sp[d] # s
      BY <2>2, <1>0 DEF CoreInv
    <3> QED
      BY <3>1, <3>2, <3>6, <3>7
  <2> QED
    BY <2>1, <2>2, <1>3
<1>6. \A d \in Cores : ~InList(d, s) /\ hot[d] # s /\ ~Deleting(d, s)
  <2>1. CASE s \in pool
    BY <2>1, <1>s, <1>0 DEF DeleteInv, HotInv
  <2>2. CASE s \in fresh
    BY <2>2, <1>s, <1>0 DEF FreshInv, CoreInv, Deleting
  <2> QED
    BY <2>1, <2>2, <1>3
<1>8. /\ pc'[c] \in {"alloc", "alloc_last"} /\ hot'[c] = s
      /\ \A d \in Cores \ {c} : pc'[d] = pc[d] /\ hot'[d] = hot[d]
  BY <1>1, <1>3, <1>4
<1>9. /\ epoch'[s] = e /\ owner'[s] = id[c]
      /\ \A t \in Spans \ {s} : epoch'[t] = epoch[t] /\ owner'[t] = owner[t]
      /\ \A t : t \in pool' => t \in pool /\ t # s
      /\ \A t : t \in fresh' <=> t \in fresh /\ t # s
      /\ \A t \in Spans \ {s} : t \in pool => t \in pool'
  BY <1>1, <1>s, <1>3
<1>10. \A d \in Cores : \A t : Deleting(d, t)' <=> Deleting(d, t)
  BY <1>2, <1>4, <1>8 DEF Deleting
<1>11. \A d \in Cores : \A t : InList(d, t)' <=> InList(d, t)
  BY <1>4 DEF InList
<1>12. \A d \in Cores, t \in Spans : Carries(d, t)' => Carries(d, t) /\ t # s
  <2>1. \A d \in Cores : \A t : Carries(d, t)' => d # c /\ pc[d] \in Popping /\ sp[d] = t /\ owner'[t] = id[d]
    BY <1>4, <1>8 DEF Carries, Popping
  <2>2. \A d \in Cores : ~Carries(d, s)'
    BY <1>0, <1>2, <1>9, <2>1, IdsApart
  <2> QED
    BY <2>1, <2>2, <1>9 DEF Carries
<1>13. \A d \in Cores : ListAccepts(d)' <=> ListAccepts(d)
  BY <1>4 DEF ListAccepts
<1>14. \A d \in Cores, t \in Spans : Links(d, t)' => Links(d, t) /\ t # s
  <2>1. ASSUME NEW d \in Cores, Links(d, s)' PROVE FALSE
    <3>1. pc[d] = "free_link" /\ sp[d] = s /\ d # c /\ ep'[d] = ep[d] /\ ListAccepts(d)
      BY <2>1, <1>4, <1>8, <1>13 DEF Links
    <3>2. s \in pool /\ e = epoch[s]
      BY <3>1, <1>3, <1>5
    <3>3. e.value = ep[d].value + 1
      BY <2>1, <3>1, <1>6, <1>9, <1>10 DEF Links
    <3>4. epoch[s].mark = "reuse"
      BY <3>1, <3>2, <3>3, <1>0 DEF EpochInv, EpochOf
    <3> QED
      BY <3>2, <3>4, <1>5
  <2>2. ASSUME NEW d \in Cores, NEW t \in Spans, t # s, Links(d, t)' PROVE Links(d, t)
    <3>1. d # c /\ epoch'[t] = epoch[t]
      BY <2>2, <1>8, <1>9 DEF Links
    <3> QED
      BY <2>2, <3>1, <1>4, <1>8, <1>10, <1>13 DEF Links
  <2> QED
    BY <2>1, <2>2
<1>15. \A i : Over(i)' <=> Over(i)
  BY <1>4 DEF Over
<1>20. IdInv'
  <2>1. pc'[c] # "dead" /\ pc'[c] \notin {"drain", "terminate", "float_load", "float_store"}
    BY <1>8
  <2> QED
    BY <1>0, <1>2, <1>4, <1>8, <1>9, <2>1 DEF IdInv
<1>21. CoreInv'
  <2>1. /\ pc'[c] \notin Busy /\ pc'[c] \notin Cold /\ pc[c] \notin Busy /\ pc'[c] \notin Informed
        /\ pc'[c] \notin {"free_revive", "terminate"}
    BY <1>2, <1>8 DEF Busy, Freeing, Informed, Popping, Cold
  <2> QED
    BY <1>0, <1>4, <1>s, <1>8, <1>9, <1>15, <2>1 DEF CoreInv
<1>22. FreshInv'
  BY <1>0, <1>2, <1>4, <1>9, <1>11 DEF FreshInv
<1>23. HotInv'
  <2>1. pc'[c] # "float_store"
    BY <1>8
  <2> QED
    BY <1>0, <1>1, <1>4, <1>5, <1>6, <1>8, <1>9, <1>10, <1>11, <2>1 DEF HotInv
<1>24. MarkInv'
  BY <1>0, <1>2, <1>8, <1>9, <1>10, NullAssumption DEF MarkInv
<1>25. DeleteInv'
  <2>1. \A d \in Cores : pc'[d] \in Flying => pc[d] \in Flying
    BY <1>8 DEF Flying
  <2>2. \A t \in Spans : t \in pool' => t \in pool /\ epoch'[t] = epoch[t]
    BY <1>9
  <2>3. \A d \in Cores, t \in Spans : Deleting(d, t) => epoch'[t] = epoch[t]
    BY <1>6, <1>9
  <2> QED
    BY <1>0, <1>4, <1>10, <1>11, <2>1, <2>2, <2>3 DEF DeleteInv
<1>26. EpochInv'
  <2> SUFFICES ASSUME NEW d \in Cores PROVE EpochOf(d)'
    BY DEF EpochInv
  <2>0. EpochOf(d)
    BY <1>0 DEF EpochInv
  <2>1. CASE d = c
    BY <2>1, <1>8, EpochIdle DEF Freeing
  <2>2. CASE d # c /\ sp[d] # s
    BY <2>2, <1>0, <1>4, <1>8, <1>9, <1>10, <1>11, <1>13, <1>14, EpochElsewhere
  <2>3. CASE d # c /\ sp[d] = s
    <3>1. s \in pool /\ epoch'[s] = epoch[s]
      BY <2>3, <1>3, <1>5, <1>9
    <3>2. ~Current(d)
      BY <2>0, <2>3, <3>1 DEF EpochOf
    <3>3. ~(pc[d] = "free_unmark" /\ ep[d] = epoch[s])
      BY <2>3, <3>2 DEF Current, Freeing
    <3> QED
      BY <2>3, <3>1, <3>2, <3>3, <1>0, <1>4, <1>8, <1>13, EpochKept
  <2> QED
    BY <2>1, <2>2, <2>3
<1>27. LinkInv'
  BY <1>0, <1>4, <1>6, <1>9, <1>10, <1>11, <1>12, <1>14 DEF LinkInv
<1>28. OnceInv'
  BY <1>0, <1>4 DEF OnceInv
<1> QED
  BY <1>20, <1>21, <1>22, <1>23, <1>24, <1>25, <1>26, <1>27, <1>28 DEF Structure

(* Span::Delete of a span in no list: the free that marked it full gives   *)
(* it to the pool, and with it all that it could do to it.                 *)
LEMMA FreeDeleteKeeps ==
  ASSUME Sound, NEW c \in Cores, FreeDelete(c), pc'[c] = "idle"
  PROVE  Structure'
<1>0. /\ TypeOK /\ IdInv /\ CoreInv /\ FreshInv /\ HotInv /\ MarkInv /\ DeleteInv
      /\ EpochInv /\ LinkInv /\ OnceInv
  BY StructureParts
<1>1. /\ sp \in [Cores -> Spans \cup {NoSpan}] /\ hot \in [Cores -> Spans \cup {NoSpan}]
      /\ ow \in [Cores -> CoreIds] /\ pc \in [Cores -> Labels] /\ ep \in [Cores -> Epochs]
      /\ epoch \in [Spans -> Epochs] /\ op \in [Cores -> {"none", "malloc", "last", "free", "exit"}]
  BY <1>0 DEF TypeOK
<1>2. /\ pc[c] = "free_delete" /\ sp[c] \in Spans /\ sp[c] \notin fresh
      /\ id[c] # kTerminated
  BY <1>0, <1>1, Labelled DEF FreeDelete, CoreInv, Informed, Busy, IdInv
<1> PICK s \in Spans : s = sp[c]
  BY <1>2
<1>3. /\ ~Linked(s) /\ pool' = pool \cup {s} /\ Done(c)
      /\ UNCHANGED << epoch, owner, live, fresh, id, hot, rspans, opened, threads >>
  BY <1>1, <1>2 DEF FreeDelete, coreVars, opVars
<1>4. Deleting(c, s)
  BY <1>2 DEF Deleting
<1>5. /\ live[s] = 0 /\ epoch[s] = Epoch("full", ep[c].value + 1) /\ epoch[s].mark = "full"
      /\ \A d \in Cores : /\ sp[d] = s => pc[d] \notin Flying
                          /\ Deleting(d, s) => d = c
  BY <1>0, <1>4 DEF DeleteInv, Epoch
<1>6. \A d \in Cores : ~InList(d, s) /\ hot[d] # s
  BY <1>0, <1>3, <1>4, NullAssumption DEF HotInv, Linked, InList
<1>8. /\ pc'[c] = "idle" /\ sp'[c] = NoSpan /\ ow'[c] = kTerminated
      /\ \A d \in Cores \ {c} : /\ pc'[d] = pc[d] /\ op'[d] = op[d] /\ sp'[d] = sp[d]
                                /\ ep'[d] = ep[d] /\ ow'[d] = ow[d]
  BY <1>1, <1>3 DEF Done
<1>10. \A d \in Cores : \A t : Deleting(d, t)' <=> Deleting(d, t) /\ t # s
  BY <1>2, <1>5, <1>8 DEF Deleting
<1>11. \A d \in Cores : \A t : InList(d, t)' <=> InList(d, t)
  BY <1>3 DEF InList
<1>12. \A d \in Cores, t \in Spans : Carries(d, t)' => Carries(d, t)
  BY <1>3, <1>8 DEF Carries, Popping
<1>13. \A d \in Cores \ {c} : ListAccepts(d)' <=> ListAccepts(d)
  BY <1>3, <1>8 DEF ListAccepts
<1>14. \A d \in Cores, t \in Spans : Links(d, t)' => Links(d, t) /\ d # c /\ t # s
  <2>1. \A d \in Cores, t \in Spans : Links(d, t)' => Links(d, t) /\ d # c
    BY <1>3, <1>8, <1>10, <1>13 DEF Links
  <2>2. ASSUME NEW d \in Cores, Links(d, s)' PROVE FALSE
    <3>1. pc[d] = "free_link" /\ sp[d] = s /\ ListAccepts(d) /\ ep'[d] = ep[d]
      BY <2>1, <2>2, <1>8 DEF Links
    <3>2. epoch[s].value = ep[d].value + 1
      BY <2>2, <3>1, <1>3, <1>10 DEF Links
    <3> QED
      BY <3>1, <3>2, <1>0, <1>5 DEF EpochInv, EpochOf
  <2> QED
    BY <2>1, <2>2
<1>15. \A i : Over(i)' <=> Over(i)
  BY <1>3 DEF Over
<1>20. IdInv'
  <2>1. ow'[c].tag <= threads
    <3>1. threads \in 0 .. MaxThreads
      BY <1>0 DEF TypeOK
    <3>2. ow'[c].tag = 0
      BY <1>8, CoreIdFacts
    <3> QED
      BY <3>1, <3>2
  <2> QED
    BY <1>0, <1>2, <1>3, <1>8, <2>1 DEF IdInv
<1>21. CoreInv'
  <2>1. /\ pc'[c] \notin Busy /\ pc'[c] \notin Cold /\ pc'[c] \notin Hot
    BY <1>8 DEF Busy, Freeing, Informed, Popping, Cold, Hot
  <2>2. pc'[c] \notin Informed /\ pc'[c] \notin {"free_revive", "terminate"}
    BY <1>8 DEF Informed
  <2>3. NoSpan \notin fresh
    BY <1>0, NullAssumption DEF TypeOK
  <2> QED
    BY <1>0, <1>3, <1>8, <1>15, <2>1, <2>2, <2>3 DEF CoreInv
<1>22. FreshInv'
  BY <1>0, <1>2, <1>3, <1>11 DEF FreshInv
<1>23. HotInv'
  <2>1. pc'[c] # "float_store"
    BY <1>8
  <2> QED
    BY <1>0, <1>1, <1>3, <1>6, <1>8, <1>10, <1>11, <2>1 DEF HotInv
<1>24. MarkInv'
  BY <1>0, <1>3, <1>10 DEF MarkInv
<1>25. DeleteInv'
  <2>1. \A d \in Cores : pc'[d] \in Flying => pc[d] \in Flying /\ sp'[d] = sp[d]
    BY <1>8 DEF Flying
  <2>2. \A d \in Cores : \A t : Deleting(d, t)' => ep'[d] = ep[d]
    BY <1>8 DEF Deleting
  <2> QED
    BY <1>0, <1>3, <1>5, <1>6, <1>10, <1>11, <2>1, <2>2 DEF DeleteInv
<1>26. EpochInv'
  <2> SUFFICES ASSUME NEW d \in Cores PROVE EpochOf(d)'
    BY DEF EpochInv
  <2>0. EpochOf(d)
    BY <1>0 DEF EpochInv
  <2>1. CASE d = c
    BY <2>1, <1>8, EpochIdle DEF Freeing
  <2>2. CASE d # c /\ sp[d] # s
    BY <2>2, <1>0, <1>3, <1>8, <1>10, <1>11, <1>13, <1>14, EpochElsewhere
  <2>3. CASE d # c /\ sp[d] = s
    <3>2. ~Current(d)
      BY <2>0, <2>3, <1>4 DEF EpochOf
    <3>3. ~(pc[d] = "free_unmark" /\ ep[d] = epoch[s])
      BY <2>3, <3>2 DEF Current, Freeing
    <3> QED
      BY <2>3, <3>2, <3>3, <1>0, <1>3, <1>8, <1>13, EpochKept
  <2> QED
    BY <2>1, <2>2, <2>3
<1>27. LinkInv'
  BY <1>0, <1>3, <1>6, <1>8, <1>10, <1>11, <1>12, <1>14 DEF LinkInv
<1>28. OnceInv'
  BY <1>0, <1>3 DEF OnceInv
<1> QED
  BY <1>20, <1>21, <1>22, <1>23, <1>24, <1>25, <1>26, <1>27, <1>28 DEF Structure

-----------------------------------------------------------------------------
(* Lists *)

(* What the lists hold after one of them has lost an element *)
LEMMA ListShrinks ==
  ASSUME TypeOK, OnceInv, NEW d \in Cores, NEW r \in Seq(Spans), NEW k \in Nat,
         Drops(r, rspans[d], k), rspans' = [rspans EXCEPT ![d] = r]
  PROVE  /\ OnceInv' /\ rspans[d] # << >>
         /\ \A f \in Cores : \A t : InList(f, t)' <=> InList(f, t) /\ ~(f = d /\ t = rspans[d][k])
         /\ InList(d, rspans[d][k])
         /\ \A f \in Cores : rspans[f] = << >> => rspans'[f] = << >>
         /\ rspans' \in [Cores -> Seq(Spans)]
<1>1. rspans \in [Cores -> Seq(Spans)] /\ rspans[d] \in Seq(Spans)
  BY DEF TypeOK
<1>2. /\ \A e : Contains(rspans[d], e) <=> Contains(r, e) \/ e = rspans[d][k]
      /\ IsInjective(r) /\ ~Contains(r, rspans[d][k])
  BY <1>1, DropsElements DEF OnceInv
<1>3. rspans[d] # << >>
  BY <1>1 DEF Drops
<1>4. rspans'[d] = r /\ \A f \in Cores \ {d} : rspans'[f] = rspans[f]
  BY <1>1
<1> QED
  BY <1>1, <1>2, <1>3, <1>4 DEF OnceInv, InList

(* A list that only loses spans, on behalf of a free that deletes one or   *)
(* of a thread that ends                                                   *)
LEMMA ShrinkStep ==
  ASSUME Sound, NEW c \in Cores, Others(c),
         UNCHANGED << epoch, owner, live, pool, fresh, id, hot, opened, threads,
                      sp, ep, ow >>,
         \/ pc[c] = "free_unlink" /\ pc'[c] = "free_delete"
         \/ pc[c] = "drain" /\ pc'[c] = "drain"
         \/ pc[c] = "drain" /\ pc'[c] = "terminate",
         pc'[c] = "terminate" => rspans'[c] = << >>,
         \A d \in Cores : rspans[d] = << >> => rspans'[d] = << >>,
         \A d \in Cores : \A t : InList(d, t)' => InList(d, t),
         OnceInv'
  PROVE  Structure'
<1>0. /\ TypeOK /\ IdInv /\ CoreInv /\ FreshInv /\ HotInv /\ MarkInv /\ DeleteInv
      /\ EpochInv /\ LinkInv /\ OnceInv
  BY StructureParts
<1>1. /\ sp \in [Cores -> Spans \cup {NoSpan}] /\ hot \in [Cores -> Spans \cup {NoSpan}]
  BY <1>0 DEF TypeOK
<1>8. \A d \in Cores \ {c} : pc'[d] = pc[d] /\ op'[d] = op[d]
  BY DEF Others
<1>10. \A d \in Cores : \A t : Deleting(d, t)' <=> Deleting(d, t)
  BY <1>8 DEF Deleting
<1>12. \A d \in Cores : \A t : Carries(d, t)' => Carries(d, t)
  BY <1>8 DEF Carries, Popping
<1>13. \A d \in Cores : ListAccepts(d)' <=> ListAccepts(d)
  BY DEF ListAccepts
<1>14. \A d \in Cores : \A t : Links(d, t)' => Links(d, t)
  BY <1>8, <1>10, <1>13 DEF Links
<1>15. \A i : Over(i)' <=> Over(i)
  BY DEF Over
<1>20. IdInv'
  <2>1. /\ pc[c] # "dead" /\ pc'[c] # "dead" /\ pc'[c] \notin {"float_load", "float_store"}
        /\ pc'[c] \in {"drain", "terminate"} => pc[c] = "drain"
    OBVIOUS
  <2> QED
    BY <1>0, <1>8, <2>1 DEF IdInv
<1>21. CoreInv'
  <2>1. /\ pc'[c] \in Busy <=> pc[c] \in Busy
        /\ pc'[c] \in Hot => pc[c] \in Hot
        /\ pc'[c] \in Cold => pc[c] \in Cold
        /\ pc'[c] \in Informed => pc[c] \in Informed
        /\ pc'[c] # "free_revive"
    BY DEF Busy, Freeing, Informed, Popping, Cold, Hot
  <2> QED
    BY <1>0, <1>8, <1>15, <2>1 DEF CoreInv
<1>22. FreshInv'
  BY <1>0 DEF FreshInv
<1>23. HotInv'
  <2>1. pc'[c] # "float_store"
    OBVIOUS
  <2> QED
    BY <1>0, <1>1, <1>8, <1>10, <2>1 DEF HotInv
<1>24. MarkInv'
  BY <1>0, <1>10 DEF MarkInv
<1>25. DeleteInv'
  <2>1. \A d \in Cores : pc'[d] \in Flying => pc[d] \in Flying
    BY <1>8 DEF Flying
  <2> QED
    BY <1>0, <1>10, <2>1 DEF DeleteInv
<1>26. EpochInv'
  <2> SUFFICES ASSUME NEW d \in Cores PROVE EpochOf(d)'
    BY DEF EpochInv
  <2>1. CASE d = c
    BY <2>1, EpochIdle DEF Freeing
  <2>2. CASE d # c
    BY <2>2, <1>0, <1>8, <1>10, <1>13, <1>14, EpochElsewhere
  <2> QED
    BY <2>1, <2>2
<1>27. LinkInv'
  BY <1>0, <1>10, <1>12, <1>14 DEF LinkInv
<1> QED
  BY <1>20, <1>21, <1>22, <1>23, <1>24, <1>25, <1>26, <1>27 DEF Structure

(* Deque::Remove *)
LEMMA FreeUnlinkKeeps ==
  ASSUME Sound, NEW c \in Cores, FreeUnlink(c)
  PROVE  Structure' /\ rspans' \in [Cores -> Seq(Spans)]
<1>0. TypeOK /\ OnceInv
  BY StructureParts
<1>1. pc \in [Cores -> Labels] /\ rspans \in [Cores -> Seq(Spans)]
  BY <1>0 DEF TypeOK
<1>2. /\ pc[c] = "free_unlink" /\ pc' = [pc EXCEPT ![c] = "free_delete"]
      /\ UNCHANGED << epoch, owner, live, pool, fresh, id, hot, opened, threads,
                      op, sp, ep, ow, cnt >>
      /\ Unlink(sp[c]) \/ rspans' = rspans
  BY DEF FreeUnlink, Goto
<1>3. Others(c) /\ pc'[c] = "free_delete"
  BY <1>1, <1>2 DEF Others
<1>4. /\ \A d \in Cores : rspans[d] = << >> => rspans'[d] = << >>
      /\ \A d \in Cores : \A t : InList(d, t)' => InList(d, t)
      /\ OnceInv' /\ rspans' \in [Cores -> Seq(Spans)]
  <2>1. CASE rspans' = rspans
    BY <2>1, <1>0, <1>1 DEF OnceInv, InList
  <2>2. CASE Unlink(sp[c])
    <3>0. PICK d \in Cores :
            \E i \in DOMAIN rspans[d] : rspans' = [rspans EXCEPT ![d] = RemoveAt(@, i)]
      BY <2>2 DEF Unlink
    <3>1. PICK i \in DOMAIN rspans[d] : rspans' = [rspans EXCEPT ![d] = RemoveAt(@, i)]
      BY <3>0
    <3>2. rspans[d] \in Seq(Spans) /\ i \in 1 .. Len(rspans[d]) /\ i \in Nat
      BY <1>1
    <3>3. RemoveAt(rspans[d], i) \in Seq(Spans) /\ Drops(RemoveAt(rspans[d], i), rspans[d], i)
      BY <3>2, RemoveAtDrops
    <3>4. rspans' = [rspans EXCEPT ![d] = RemoveAt(rspans[d], i)]
      BY <3>1
    <3> QED
      BY <1>0, <3>2, <3>3, <3>4, ListShrinks
  <2> QED
    BY <1>2, <2>1, <2>2
<1> QED
  BY <1>2, <1>3, <1>4, ShrinkStep

(* Deque::RemoveAll *)
LEMMA DestroyRemoveKeeps ==
  ASSUME Sound, NEW c \in Cores, DestroyRemove(c)
  PROVE  Structure' /\ rspans' \in [Cores -> Seq(Spans)]
<1>0. TypeOK /\ OnceInv
  BY StructureParts
<1>1. pc \in [Cores -> Labels] /\ rspans \in [Cores -> Seq(Spans)]
  BY <1>0 DEF TypeOK
<1>2. /\ pc[c] = "drain"
      /\ UNCHANGED << epoch, owner, live, pool, fresh, id, hot, opened, threads,
                      op, sp, ep, ow, cnt >>
  BY DEF DestroyRemove
<1>3. CASE rspans[c] = << >>
  <2>1. rspans' = rspans /\ pc' = [pc EXCEPT ![c] = "terminate"]
    BY <1>3 DEF DestroyRemove, Goto
  <2>2. Others(c) /\ pc'[c] = "terminate" /\ rspans'[c] = << >>
    BY <1>1, <1>2, <1>3, <2>1 DEF Others
  <2>3. OnceInv' /\ \A d \in Cores : \A t : InList(d, t)' => InList(d, t)
    BY <1>0, <2>1 DEF OnceInv, InList
  <2> QED
    BY <1>1, <1>2, <2>1, <2>2, <2>3, ShrinkStep
<1>4. CASE rspans[c] # << >>
  <2>1. rspans' = [rspans EXCEPT ![c] = Tail(rspans[c])] /\ pc' = pc
    BY <1>4 DEF DestroyRemove
  <2>2. Others(c)
    BY <1>2, <2>1 DEF Others
  <2>3. Tail(rspans[c]) \in Seq(Spans) /\ Drops(Tail(rspans[c]), rspans[c], 1)
    BY <1>1, <1>4, TailDrops
  <2>4. /\ \A d \in Cores : rspans[d] = << >> => rspans'[d] = << >>
        /\ \A d \in Cores : \A t : InList(d, t)' => InList(d, t)
        /\ OnceInv' /\ rspans' \in [Cores -> Seq(Spans)]
    BY <1>0, <2>1, <2>3, ListShrinks
  <2>5. pc[c] = "drain" /\ pc'[c] = "drain" /\ pc'[c] # "terminate"
    BY <1>2, <2>1
  <2> QED
    BY <1>2, <2>2, <2>4, <2>5, ShrinkStep
<1> QED
  BY <1>3, <1>4

(* RemoveBack: the core takes a span from its list, and is the only one    *)
(* that could make it hot.                                                 *)
LEMMA GetRemoveKeeps ==
  ASSUME Sound, NEW c \in Cores, GetRemove(c), rspans[c] # << >>
  PROVE  Structure' /\ rspans' \in [Cores -> Seq(Spans)] /\ sp'[c] \in Spans
<1>0. /\ TypeOK /\ IdInv /\ CoreInv /\ FreshInv /\ HotInv /\ MarkInv /\ DeleteInv
      /\ EpochInv /\ LinkInv /\ OnceInv
  BY StructureParts
<1>1. /\ sp \in [Cores -> Spans \cup {NoSpan}] /\ hot \in [Cores -> Spans \cup {NoSpan}]
      /\ pc \in [Cores -> Labels] /\ rspans \in [Cores -> Seq(Spans)]
  BY <1>0 DEF TypeOK
<1>2. /\ pc[c] = "get_remove" /\ id[c] # kTerminated /\ hot[c] = NoSpan
  BY <1>0 DEF GetRemove, CoreInv, Cold, IdInv
<1>3. /\ sp' = [sp EXCEPT ![c] = Last(rspans[c])]
      /\ rspans' = [rspans EXCEPT ![c] = Front(rspans[c])]
      /\ pc' = [pc EXCEPT ![c] = "get_epoch"]
      /\ UNCHANGED << epoch, owner, live, pool, fresh, id, hot, opened, threads, op, ep, ow >>
  BY DEF GetRemove, Goto
<1>4. /\ Front(rspans[c]) \in Seq(Spans)
      /\ Drops(Front(rspans[c]), rspans[c], Len(rspans[c])) /\ Len(rspans[c]) \in Nat
      /\ Last(rspans[c]) = rspans[c][Len(rspans[c])]
      /\ Last(rspans[c]) \in Spans
  <2>1. rspans[c] \in Seq(Spans) /\ Len(rspans[c]) \in 1 .. Len(rspans[c]) /\ Len(rspans[c]) \in Nat
    BY <1>1
  <2>2. Last(rspans[c]) = rspans[c][Len(rspans[c])]
    BY DEF Last
  <2> QED
    BY <2>1, <2>2, FrontDrops
<1> PICK s \in Spans : s = Last(rspans[c])
  BY <1>4
<1>5. /\ OnceInv' /\ rspans' \in [Cores -> Seq(Spans)] /\ InList(c, s)
      /\ \A d \in Cores : \A t : InList(d, t)' <=> InList(d, t) /\ ~(d = c /\ t = s)
      /\ \A d \in Cores : rspans[d] = << >> => rspans'[d] = << >>
  <2>1. PICK k \in Nat, r \in Seq(Spans) :
          /\ k = Len(rspans[c]) /\ r = Front(rspans[c])
          /\ Drops(r, rspans[c], k) /\ s = rspans[c][k]
    BY <1>4
  <2>2. rspans' = [rspans EXCEPT ![c] = r]
    BY <1>3, <2>1
  <2>3. /\ OnceInv' /\ rspans' \in [Cores -> Seq(Spans)] /\ InList(c, rspans[c][k])
        /\ \A d \in Cores : \A t : InList(d, t)' <=> InList(d, t) /\ ~(d = c /\ t = rspans[c][k])
        /\ \A d \in Cores : rspans[d] = << >> => rspans'[d] = << >>
    BY <1>0, <2>1, <2>2, ListShrinks
  <2> QED
    BY <2>1, <2>3
<1>6. /\ owner[s] = id[c] /\ s \notin fresh
      /\ epoch[s].mark = "reuse" \/ \E d \in Cores : Deleting(d, s)
      /\ \A d \in Cores : ~Links(d, s) /\ (InList(d, s) => d = c)
  <2>1. owner[s] = id[c] /\ s \notin fresh /\ \A d \in Cores : InList(d, s) => owner[s] = id[d]
    BY <1>0, <1>5 DEF LinkInv, FreshInv
  <2>2. \A d \in Cores : InList(d, s) => d = c
    BY <1>0, <1>2, <2>1, IdsApart
  <2> QED
    BY <1>0, <1>5, <2>1, <2>2 DEF LinkInv
<1>7. epoch[s].mark \in {"reuse", "full"}
  <2>1. CASE epoch[s].mark = "reuse"
    BY <2>1
  <2>2. ASSUME NEW d \in Cores, Deleting(d, s)
        PROVE  epoch[s].mark = "full"
    <3>1. epoch[s] = Epoch("full", ep[d].value + 1)
      BY <1>0, <2>2 DEF DeleteInv
    <3> QED
      BY <3>1 DEF Epoch
  <2> QED
    BY <1>6, <2>1, <2>2
<1>8. /\ pc'[c] = "get_epoch" /\ sp'[c] = s
      /\ \A d \in Cores \ {c} : pc'[d] = pc[d] /\ sp'[d] = sp[d]
  BY <1>1, <1>3
<1>10. \A d \in Cores : \A t : Deleting(d, t)' <=> Deleting(d, t)
  BY <1>2, <1>8 DEF Deleting
<1>12. \A d \in Cores : \A t : Carries(d, t)' => Carries(d, t) \/ (d = c /\ t = s)
  BY <1>3, <1>8 DEF Carries
<1>13. \A d \in Cores : ListAccepts(d)' <=> ListAccepts(d)
  BY <1>3 DEF ListAccepts
<1>14. \A d \in Cores, t \in Spans : Links(d, t)' => Links(d, t) /\ t # s
  <2>1. \A d \in Cores, t \in Spans : Links(d, t)' => Links(d, t)
    BY <1>3, <1>8, <1>10, <1>13 DEF Links
  <2> QED
    BY <2>1, <1>6
<1>15. \A i : Over(i)' <=> Over(i)
  BY <1>3 DEF Over
<1>20. IdInv'
  BY <1>0, <1>2, <1>3, <1>8 DEF IdInv
<1>21. CoreInv'
  <2>1. /\ pc'[c] \in Busy /\ pc'[c] \notin Hot /\ pc'[c] \notin Informed
        /\ pc'[c] \notin {"free_revive", "terminate"}
    BY <1>8 DEF Busy, Freeing, Informed, Popping, Hot
  <2>2. s # NoSpan /\ s \notin fresh
    BY <1>6, NullAssumption
  <2> QED
    BY <1>0, <1>2, <1>3, <1>5, <1>8, <1>15, <2>1, <2>2 DEF CoreInv
<1>22. FreshInv'
  BY <1>0, <1>3, <1>5 DEF FreshInv
<1>23. HotInv'
  <2>1. pc'[c] # "float_store"
    BY <1>8
  <2> QED
    BY <1>0, <1>1, <1>3, <1>5, <1>8, <1>10, <2>1 DEF HotInv
<1>24. MarkInv'
  BY <1>0, <1>3, <1>10 DEF MarkInv
<1>25. DeleteInv'
  <2>1. \A d \in Cores : pc'[d] \in Flying => pc[d] \in Flying /\ sp'[d] = sp[d]
    BY <1>8 DEF Flying
  <2> QED
    BY <1>0, <1>3, <1>5, <1>10, <2>1 DEF DeleteInv
<1>26. EpochInv'
  <2> SUFFICES ASSUME NEW d \in Cores PROVE EpochOf(d)'
    BY DEF EpochInv
  <2>1. CASE d = c
    BY <2>1, <1>8, EpochIdle DEF Freeing
  <2>2. CASE d # c
    BY <2>2, <1>0, <1>3, <1>5, <1>8, <1>10, <1>13, <1>14, EpochElsewhere
  <2> QED
    BY <2>1, <2>2
<1>27. LinkInv'
  <2>1. \A d \in Cores : ~InList(d, s)'
    BY <1>5, <1>6
  <2> QED
    BY <1>0, <1>3, <1>5, <1>7, <1>10, <1>12, <1>14, <2>1 DEF LinkInv
<1> QED
  BY <1>5, <1>8, <1>20, <1>21, <1>22, <1>23, <1>24, <1>25, <1>26, <1>27 DEF Structure

(* PushFront of a span that has not been deleted: the list is open, so it  *)
(* is its owner's, and no other free can link the span.                    *)
LEMMA FreeLinkKeeps ==
  ASSUME Sound, NEW c \in Cores, FreeLink(c), ListAccepts(c), ~DeletedSince(c)
  PROVE  Structure' /\ rspans' \in [Cores -> Seq(Spans)]
<1>0. /\ TypeOK /\ IdInv /\ CoreInv /\ FreshInv /\ HotInv /\ MarkInv /\ DeleteInv
      /\ EpochInv /\ LinkInv /\ OnceInv
  BY StructureParts
<1>1. /\ sp \in [Cores -> Spans \cup {NoSpan}] /\ hot \in [Cores -> Spans \cup {NoSpan}]
      /\ ow \in [Cores -> CoreIds] /\ pc \in [Cores -> Labels] /\ ep \in [Cores -> Epochs]
      /\ epoch \in [Spans -> Epochs] /\ op \in [Cores -> {"none", "malloc", "last", "free", "exit"}]
      /\ rspans \in [Cores -> Seq(Spans)] /\ threads \in 0 .. MaxThreads
  BY <1>0 DEF TypeOK
<1>2. /\ pc[c] = "free_link" /\ sp[c] \in Spans /\ sp[c] \notin fresh
      /\ id[c] # kTerminated /\ ow[c] # kTerminated
  BY <1>0, <1>1, Labelled DEF FreeLink, CoreInv, IdInv
<1> PICK s \in Spans : s = sp[c]
  BY <1>2
<1>a. ow[c].core \in Cores /\ id[ow[c].core] = ow[c]
  BY <1>0, <1>2, OpenAlive
<1> PICK l \in Cores : l = ow[c].core
  BY <1>a
<1>3. /\ rspans' = [rspans EXCEPT ![l] = Cons(s, rspans[l])] /\ Done(c)
      /\ UNCHANGED << epoch, owner, live, pool, fresh, id, hot, opened, threads >>
  BY <1>1, <1>2 DEF FreeLink
<1>4. Links(c, s)
  <2>1. ep[c] \in Epochs /\ epoch[s] = Marked(ep[c], "reuse") => epoch[s].value = ep[c].value + 1
    BY <1>1 DEF Marked, Epoch
  <2> QED
    BY <1>1, <1>2, <2>1 DEF Links, DeletedSince
<1>5. /\ owner[s] = id[l]
      /\ \A d \in Cores : ~InList(d, s) /\ ~Carries(d, s) /\ (Links(d, s) => d = c)
  BY <1>0, <1>4, <1>a DEF LinkInv
<1>6. epoch[s].mark = "reuse" \/ \E d \in Cores : Deleting(d, s)
  BY <1>0, <1>2, <1>4 DEF Links, EpochInv, EpochOf
<1>7. s \notin pool /\ \A d \in Cores : hot[d] # s
  <2>1. CASE epoch[s].mark = "reuse"
    BY <2>1, Floating
  <2>2. CASE \E d \in Cores : Deleting(d, s)
    BY <2>2, <1>0, NullAssumption DEF HotInv, DeleteInv
  <2> QED
    BY <1>6, <2>1, <2>2
<1>8. /\ pc'[c] = "idle" /\ sp'[c] = NoSpan /\ ow'[c] = kTerminated
      /\ \A d \in Cores \ {c} : /\ pc'[d] = pc[d] /\ op'[d] = op[d] /\ sp'[d] = sp[d]
                                /\ ep'[d] = ep[d] /\ ow'[d] = ow[d]
  BY <1>1, <1>3 DEF Done
<1>10. \A d \in Cores : \A t : Deleting(d, t)' <=> Deleting(d, t)
  BY <1>2, <1>8 DEF Deleting
<1>11. /\ OnceInv' /\ rspans' \in [Cores -> Seq(Spans)]
       /\ \A d \in Cores : \A t : InList(d, t)' <=> InList(d, t) \/ (d = l /\ t = s)
       /\ \A d \in Cores \ {l} : rspans'[d] = rspans[d]
  <2>1. rspans'[l] = Cons(s, rspans[l]) /\ \A d \in Cores \ {l} : rspans'[d] = rspans[d]
    BY <1>1, <1>3
  <2>2. /\ rspans[l] \in Seq(Spans) /\ Cons(s, rspans[l]) \in Seq(Spans)
        /\ Drops(rspans[l], Cons(s, rspans[l]), 1) /\ Cons(s, rspans[l])[1] = s
    <3>1. rspans[l] \in Seq(Spans)
      BY <1>1
    <3> QED
      BY ONLY <3>1, s \in Spans, ConsAdds
  <2>3. /\ \A t : Contains(Cons(s, rspans[l]), t) <=> Contains(rspans[l], t) \/ t = s
        /\ IsInjective(rspans[l]) /\ ~Contains(rspans[l], s) => IsInjective(Cons(s, rspans[l]))
    <3>1. PICK r \in Seq(Spans), q \in Seq(Spans) :
            r = rspans[l] /\ q = Cons(s, rspans[l]) /\ Drops(r, q, 1) /\ q[1] = s
      BY <2>2
    <3>2. /\ \A t : Contains(q, t) <=> Contains(r, t) \/ t = q[1]
          /\ IsInjective(r) /\ ~Contains(r, q[1]) => IsInjective(q)
      BY <3>1, DropsElements
    <3> QED
      BY <3>1, <3>2, Zenon
  <2>4. IsInjective(Cons(s, rspans[l]))
    BY <1>0, <1>5, <2>3 DEF OnceInv, InList
  <2>5. PICK r \in Seq(Spans) :
          /\ r = Cons(s, rspans[l]) /\ IsInjective(r)
          /\ \A t : Contains(r, t) <=> Contains(rspans[l], t) \/ t = s
    <3>1. \A t : Contains(Cons(s, rspans[l]), t) <=> Contains(rspans[l], t) \/ t = s
      BY <2>3
    <3> QED
      BY <3>1, <2>2, <2>4, Zenon
  <2>6. rspans'[l] = r /\ rspans' = [rspans EXCEPT ![l] = r]
    BY <1>3, <2>1, <2>5
  <2>7. OnceInv'
    BY <1>0, <2>1, <2>5, <2>6 DEF OnceInv
  <2>8. rspans' \in [Cores -> Seq(Spans)]
    BY <1>1, <2>6
  <2>9. \A d \in Cores : \A t : InList(d, t)' <=> InList(d, t) \/ (d = l /\ t = s)
    BY <2>1, <2>5, <2>6 DEF InList
  <2> QED
    BY <2>1, <2>7, <2>8, <2>9
<1>12. \A d \in Cores : \A t : Carries(d, t)' => Carries(d, t)
  BY <1>3, <1>8 DEF Carries, Popping
<1>13. \A d \in Cores \ {c} : ListAccepts(d)' <=> ListAccepts(d)
  BY <1>3, <1>8 DEF ListAccepts
<1>14. \A d \in Cores, t \in Spans : Links(d, t)' => Links(d, t) /\ d # c /\ t # s
  <2>1. \A d \in Cores, t \in Spans : Links(d, t)' => Links(d, t) /\ d # c
    BY <1>3, <1>8, <1>10, <1>13 DEF Links
  <2> QED
    BY <2>1, <1>5
<1>15. \A i : Over(i)' <=> Over(i)
  BY <1>3 DEF Over
<1>20. IdInv'
  <2>1. ow'[c].tag <= threads
    BY <1>1, <1>8, CoreIdFacts
  <2> QED
    BY <1>0, <1>2, <1>3, <1>8, <2>1 DEF IdInv
<1>21. CoreInv'
  <2>1. /\ pc'[c] \notin Busy /\ pc'[c] \notin Cold /\ pc'[c] \notin Hot
    BY <1>8 DEF Busy, Freeing, Informed, Popping, Cold, Hot
  <2>2. pc'[c] \notin Informed /\ pc'[c] \notin {"free_revive", "terminate"}
    BY <1>8 DEF Informed
  <2>3. NoSpan \notin fresh
    BY <1>0, NullAssumption DEF TypeOK
  <2>4. pc[l] # "terminate"
    BY <1>0, <1>2 DEF IdInv, ListAccepts
  <2>5. \A d \in Cores : pc'[d] = "terminate" => rspans'[d] = << >>
    BY <1>0, <1>8, <1>11, <2>4 DEF CoreInv
  <2> QED
    BY <1>0, <1>3, <1>8, <1>15, <2>1, <2>2, <2>3, <2>5 DEF CoreInv
<1>22. FreshInv'
  BY <1>0, <1>2, <1>3, <1>11 DEF FreshInv
<1>23. HotInv'
  <2>1. pc'[c] # "float_store"
    BY <1>8
  <2> QED
    BY <1>0, <1>1, <1>3, <1>7, <1>8, <1>10, <1>11, <2>1 DEF HotInv
<1>24. MarkInv'
  BY <1>0, <1>3, <1>10 DEF MarkInv
<1>25. DeleteInv'
  <2>1. \A d \in Cores : pc'[d] \in Flying => pc[d] \in Flying /\ sp'[d] = sp[d]
    BY <1>8 DEF Flying
  <2>2. \A d \in Cores : \A t : Deleting(d, t)' => ep'[d] = ep[d]
    BY <1>8 DEF Deleting
  <2> QED
    BY <1>0, <1>3, <1>7, <1>10, <1>11, <2>1, <2>2 DEF DeleteInv
<1>26. EpochInv'
  <2> SUFFICES ASSUME NEW d \in Cores PROVE EpochOf(d)'
    BY DEF EpochInv
  <2>0. EpochOf(d)
    BY <1>0 DEF EpochInv
  <2>1. CASE d = c
    BY <2>1, <1>8, EpochIdle DEF Freeing
  <2>2. CASE d # c /\ sp[d] # s
    BY <2>2, <1>0, <1>3, <1>8, <1>10, <1>11, <1>13, <1>14, EpochElsewhere
  <2>3. CASE d # c /\ sp[d] = s
    <3>1. ~(pc[d] = "free_unmark" /\ ep[d] = epoch[s])
      BY <2>0, <2>3, <1>4 DEF EpochOf
    <3>2. /\ Current(d) => s \notin pool /\ \A f \in Cores : ~Deleting(f, s)
          /\ Current(d) /\ pc[d] \in Informed => owner[s] = ow[d] \/ Over(ow[d])
      BY <2>0, <2>3 DEF EpochOf
    <3> QED
      BY <2>3, <3>1, <3>2, <1>0, <1>3, <1>8, <1>10, <1>13, <1>15, EpochKept
  <2> QED
    BY <2>1, <2>2, <2>3
<1>27. LinkInv'
  BY <1>0, <1>3, <1>5, <1>6, <1>8, <1>10, <1>11, <1>12, <1>14 DEF LinkInv
<1> QED
  BY <1>11, <1>20, <1>21, <1>22, <1>23, <1>24, <1>25, <1>26, <1>27 DEF Structure

-----------------------------------------------------------------------------
(* Threads that come and go *)

(* The core c changes its identity, or closes its list.  It has then no    *)
(* hot span and no list, or keeps its identity.                            *)
LEMMA IdentityStep ==
  ASSUME Sound, NEW c \in Cores, IdInv',
         UNCHANGED << epoch, owner, live, pool, fresh, hot, rspans, sp, ep, ow >>,
         \A d \in Cores \ {c} : pc'[d] = pc[d] /\ id'[d] = id[d],
         id'[c] = id[c] \/ (hot[c] = NoSpan /\ \A t : ~InList(c, t)),
         \A d \in Cores : pc[d] = "free_link" /\ ListAccepts(d)' => ListAccepts(d),
         \A i \in CoreIds : i # kTerminated /\ i.tag <= threads /\ Over(i) => Over(i)',
         pc[c] \in {"dead", "idle", "terminate"},
         pc'[c] \in {"dead", "idle", "float_load", "drain"},
         pc'[c] = "float_load" <=> hot[c] # NoSpan /\ pc'[c] # "idle"
  PROVE  Structure'
<1>0. /\ TypeOK /\ IdInv /\ CoreInv /\ FreshInv /\ HotInv /\ MarkInv /\ DeleteInv
      /\ EpochInv /\ LinkInv /\ OnceInv
  BY StructureParts
<1>1. /\ sp \in [Cores -> Spans \cup {NoSpan}] /\ hot \in [Cores -> Spans \cup {NoSpan}]
      /\ ow \in [Cores -> CoreIds]
  BY <1>0 DEF TypeOK
<1>2. \A d \in Cores : pc[d] \in Informed /\ Over(ow[d]) => Over(ow[d])'
  BY <1>0, <1>1 DEF CoreInv, IdInv
<1>3. /\ pc[c] \notin Busy /\ pc'[c] \notin Busy
      /\ pc[c] \notin Informed /\ pc'[c] \notin Informed
      /\ pc[c] \notin Popping /\ pc'[c] \notin Popping
      /\ pc'[c] \notin {"free_revive", "free_link", "terminate", "float_store",
                        "free_unlink", "free_delete"}
      /\ pc[c] \notin {"free_revive", "free_link", "free_unlink", "free_delete"}
      /\ pc'[c] \notin Freeing /\ pc'[c] \notin Flying
      /\ pc'[c] \in Hot => pc'[c] = "float_load"
      /\ pc'[c] \in Cold => pc'[c] \in {"dead", "drain"}
  BY DEF Busy, Freeing, Informed, Popping, Flying, Hot, Cold
<1>10. \A d \in Cores : \A t : Deleting(d, t)' <=> Deleting(d, t)
  BY <1>3 DEF Deleting
<1>11. \A d \in Cores : \A t : InList(d, t)' <=> InList(d, t)
  BY DEF InList
<1>12. \A d \in Cores : \A t : Carries(d, t)' => Carries(d, t)
  BY <1>3 DEF Carries
<1>14. \A d \in Cores, t \in Spans : Links(d, t)' => Links(d, t)
  BY <1>3, <1>10 DEF Links
<1>21. CoreInv'
  <2>1. \A d \in Cores : pc'[d] = "free_revive" => Over(ow[d])'
    <3>1. "free_revive" \in Informed
      BY DEF Informed
    <3> QED
      BY <1>0, <1>2, <1>3, <3>1 DEF CoreInv
  <2> QED
    BY <1>0, <1>3, <2>1 DEF CoreInv
<1>22. FreshInv'
  BY <1>0, <1>11 DEF FreshInv
<1>23. HotInv'
  BY <1>0, <1>1, <1>3, <1>10, <1>11 DEF HotInv
<1>24. MarkInv'
  BY <1>0, <1>10 DEF MarkInv
<1>25. DeleteInv'
  <2>1. \A d \in Cores : pc'[d] \in Flying => pc[d] \in Flying
    BY <1>3
  <2> QED
    BY <1>0, <1>10, <1>11, <2>1 DEF DeleteInv
<1>26. EpochInv'
  <2> SUFFICES ASSUME NEW d \in Cores PROVE EpochOf(d)'
    BY DEF EpochInv
  <2>0. EpochOf(d)
    BY <1>0 DEF EpochInv
  <2>1. CASE d = c
    BY <2>1, <1>3, EpochIdle
  <2>2. CASE d # c /\ sp[d] \in Spans
    <3>1. /\ Current(d) => sp[d] \notin pool /\ \A f \in Cores : ~Deleting(f, sp[d])
          /\ Current(d) /\ pc[d] \in Informed => owner[sp[d]] = ow[d] \/ Over(ow[d])'
          /\ pc[d] = "free_unmark" /\ ep[d] = epoch[sp[d]] =>
               /\ owner[sp[d]] = id'[d]
               /\ \A f \in Cores : ~InList(f, sp[d]) /\ ~Links(f, sp[d])
      BY <2>0, <2>2, <1>2 DEF EpochOf
    <3> QED
      BY <2>2, <3>1, <1>0, <1>10, <1>11, <1>14, EpochKept
  <2>3. CASE d # c /\ sp[d] = NoSpan
    BY <2>3, <1>0, EpochIdle, Labelled DEF CoreInv
  <2> QED
    BY <1>1, <2>1, <2>2, <2>3
<1>27. LinkInv'
  <2>1. \A d \in Cores : \A t : InList(d, t) => id'[d] = id[d]
    OBVIOUS
  <2> QED
    BY <1>0, <1>10, <1>11, <1>12, <1>14, <2>1 DEF LinkInv
<1>28. OnceInv'
  BY <1>0 DEF OnceInv
<1> QED
  BY <1>21, <1>22, <1>23, <1>24, <1>25, <1>26, <1>27, <1>28 DEF Structure

(* A new thread: nobody has seen its identity before. *)
LEMMA GetMeALABKeeps ==
  ASSUME Sound, NEW c \in Cores, GetMeALAB(c)
  PROVE  /\ Structure' /\ CoreId(c, threads + 1) \in CoreIds
         /\ threads' \in 0 .. MaxThreads
<1>0. /\ TypeOK /\ IdInv /\ CoreInv /\ FreshInv /\ LinkInv
  BY StructureParts
<1>1. /\ pc \in [Cores -> Labels] /\ id \in [Cores -> CoreIds] /\ opened \in [Cores -> CoreIds]
      /\ ow \in [Cores -> CoreIds] /\ owner \in [Spans -> CoreIds]
      /\ threads \in 0 .. MaxThreads /\ rspans \in [Cores -> Seq(Spans)]
  BY <1>0 DEF TypeOK
<1> PICK n, i : n = threads + 1 /\ i = CoreId(c, n)
  OBVIOUS
<1>2. /\ pc[c] = "dead" /\ threads' = n /\ id' = [id EXCEPT ![c] = i]
      /\ opened' = [opened EXCEPT ![c] = i] /\ pc' = [pc EXCEPT ![c] = "idle"]
      /\ UNCHANGED << epoch, owner, live, pool, fresh, hot, rspans, op, sp, ep, ow >>
      /\ threads < MaxThreads
  BY DEF GetMeALAB, InitCore, Goto, spanVars
<1>3. n \in 1 .. MaxThreads /\ threads \in Nat
  BY <1>1, <1>2, BoundsAssumption
<1>4. i \in CoreIds /\ i # kTerminated /\ i.core = c /\ i.tag = n
  BY <1>3, CoreIdFacts
<1>5. /\ id'[c] = i /\ opened'[c] = i /\ pc'[c] = "idle"
      /\ \A d \in Cores \ {c} : id'[d] = id[d] /\ opened'[d] = opened[d] /\ pc'[d] = pc[d]
  BY <1>1, <1>2
<1>6. \A j \in CoreIds : j.tag \in Nat /\ (j.tag <= threads => j # i /\ j.tag <= n)
  BY <1>3, <1>4, CoreIdFacts
<1>7. IdInv'
  <2>1. \A d \in Cores : id'[d].tag <= n /\ ow'[d].tag <= n
    BY <1>0, <1>1, <1>2, <1>3, <1>4, <1>5, <1>6 DEF IdInv
  <2>2. \A s \in Spans : owner'[s].tag <= n
    BY <1>0, <1>1, <1>2, <1>6 DEF IdInv
  <2> QED
    BY <1>0, <1>2, <1>4, <1>5, <2>1, <2>2 DEF IdInv
<1>8. hot[c] = NoSpan /\ \A t : ~InList(c, t)
  <2>1. hot[c] = NoSpan
    BY <1>0, <1>2 DEF CoreInv, Cold
  <2>2. ASSUME NEW t, InList(c, t) PROVE FALSE
    <3>1. t \in Spans
      BY <1>1, <2>2 DEF InList, Contains
    <3>2. owner[t] = kTerminated
      BY <1>0, <1>2, <2>2, <3>1 DEF LinkInv, IdInv
    <3> QED
      BY <1>0, <2>2, <3>1, <3>2 DEF FreshInv
  <2> QED
    BY <2>1, <2>2
<1>9. \A d \in Cores : pc[d] = "free_link" /\ ListAccepts(d)' => ListAccepts(d)
  <2> SUFFICES ASSUME NEW d \in Cores, pc[d] = "free_link", ListAccepts(d)'
               PROVE  ListAccepts(d)
    OBVIOUS
  <2>1. ow[d] \in CoreIds /\ ow[d] # kTerminated /\ ow[d].tag <= threads
    BY <1>0, <1>1, Labelled DEF CoreInv, IdInv
  <2>2. ow[d].core \in Cores /\ opened'[ow[d].core] = ow[d] /\ ow[d] # i
    BY <2>1, <1>2, <1>6, CoreIdFacts DEF ListAccepts
  <2> QED
    BY <2>2, <1>5 DEF ListAccepts
<1>10. \A j \in CoreIds : j # kTerminated /\ j.tag <= threads /\ Over(j) => Over(j)'
  BY <1>5, <1>6 DEF Over
<1> QED
  BY <1>2, <1>3, <1>4, <1>5, <1>7, <1>8, <1>9, <1>10, IdentityStep, BoundsAssumption

(* Deque::Close: from now on nothing is linked into the list. *)
LEMMA DestroyCloseKeeps ==
  ASSUME Sound, NEW c \in Cores, DestroyClose(c)
  PROVE  Structure'
<1>0. /\ TypeOK /\ IdInv /\ CoreInv
  BY StructureParts
<1>1. /\ pc \in [Cores -> Labels] /\ opened \in [Cores -> CoreIds] /\ ow \in [Cores -> CoreIds]
      /\ op \in [Cores -> {"none", "malloc", "last", "free", "exit"}]
  BY <1>0 DEF TypeOK
<1>2. /\ pc[c] = "idle" /\ opened' = [opened EXCEPT ![c] = kTerminated]
      /\ pc' = [pc EXCEPT ![c] = IF hot[c] # NoSpan THEN "float_load" ELSE "drain"]
      /\ op' = [op EXCEPT ![c] = "exit"]
      /\ UNCHANGED << epoch, owner, live, pool, fresh, id, hot, rspans, threads, sp, ep, ow >>
  BY DEF DestroyClose, Goto, spanVars
<1>3. /\ opened'[c] = kTerminated
      /\ pc'[c] = IF hot[c] # NoSpan THEN "float_load" ELSE "drain"
      /\ \A d \in Cores \ {c} : opened'[d] = opened[d] /\ pc'[d] = pc[d] /\ op'[d] = op[d]
  BY <1>1, <1>2
<1>4. IdInv'
  BY <1>0, <1>2, <1>3 DEF IdInv
<1>5. \A d \in Cores : pc[d] = "free_link" /\ ListAccepts(d)' => ListAccepts(d)
  <2> SUFFICES ASSUME NEW d \in Cores, pc[d] = "free_link", ListAccepts(d)'
               PROVE  ListAccepts(d)
    OBVIOUS
  <2>1. ow[d] \in CoreIds /\ ow[d] # kTerminated
    BY <1>0, <1>1, Labelled DEF CoreInv
  <2>2. ow[d].core \in Cores /\ opened'[ow[d].core] = ow[d]
    BY <2>1, <1>2, CoreIdFacts DEF ListAccepts
  <2> QED
    BY <2>1, <2>2, <1>3 DEF ListAccepts
<1>6. \A i : Over(i) => Over(i)'
  BY <1>2 DEF Over
<1> QED
  BY <1>2, <1>3, <1>4, <1>5, <1>6, IdentityStep

(* The end of a thread: its identity is over, its spans have no owner. *)
LEMMA DestroyEndKeeps ==
  ASSUME Sound, NEW c \in Cores, DestroyEnd(c)
  PROVE  Structure'
<1>0. /\ TypeOK /\ IdInv /\ CoreInv
  BY StructureParts
<1>1. /\ pc \in [Cores -> Labels] /\ id \in [Cores -> CoreIds]
      /\ op \in [Cores -> {"none", "malloc", "last", "free", "exit"}]
      /\ threads \in 0 .. MaxThreads
  BY <1>0 DEF TypeOK
<1>2. /\ pc[c] = "terminate" /\ id' = [id EXCEPT ![c] = kTerminated]
      /\ pc' = [pc EXCEPT ![c] = "dead"] /\ op' = [op EXCEPT ![c] = "none"]
      /\ UNCHANGED << epoch, owner, live, pool, fresh, opened, hot, rspans, threads, sp, ep, ow >>
  BY DEF DestroyEnd, Goto, spanVars
<1>3. /\ id'[c] = kTerminated /\ pc'[c] = "dead"
      /\ \A d \in Cores \ {c} : id'[d] = id[d] /\ pc'[d] = pc[d] /\ op'[d] = op[d]
  BY <1>1, <1>2
<1>4. IdInv'
  <2>1. kTerminated.tag <= threads
    BY <1>1, CoreIdFacts
  <2> QED
    BY <1>0, <1>2, <1>3, <2>1 DEF IdInv
<1>5. hot[c] = NoSpan /\ \A t : ~InList(c, t)
  <2>1. hot[c] = NoSpan /\ rspans[c] = << >>
    BY <1>0, <1>2 DEF CoreInv, Cold
  <2> QED
    BY <2>1 DEF InList, Contains
<1>6. \A d \in Cores : ListAccepts(d)' => ListAccepts(d)
  BY <1>2 DEF ListAccepts
<1>7. \A i : i # kTerminated /\ Over(i) => Over(i)'
  BY <1>3 DEF Over
<1> QED
  BY <1>2, <1>3, <1>4, <1>5, <1>6, <1>7, IdentityStep

-----------------------------------------------------------------------------
(* Types *)

LEMMA FenceType ==
  ASSUME TypeOK, NEW c \in Cores, Fence(c)
  PROVE  /\ visible' \in [Spans -> 0 .. K]
         /\ \A s \in Spans : /\ owner[s] = id[c] => visible'[s] = local[s]
                             /\ visible'[s] = local[s] \/ visible'[s] = visible[s]
<1>1. local \in [Spans -> 0 .. K] /\ visible \in [Spans -> 0 .. K]
  BY DEF TypeOK
<1> QED
  BY <1>1 DEF Fence

LEMMA StoreLenType ==
  ASSUME TypeOK, NEW s \in Spans, NEW n \in 0 .. K, StoreLen(s, n)
  PROVE  /\ local' \in [Spans -> 0 .. K] /\ visible' \in [Spans -> 0 .. K]
         /\ local'[s] = n /\ visible'[s] \in {local[s], n}
         /\ \A t \in Spans \ {s} : local'[t] = local[t] /\ visible'[t] = visible[t]
<1>1. local \in [Spans -> 0 .. K] /\ visible \in [Spans -> 0 .. K]
  BY DEF TypeOK
<1> QED
  BY <1>1 DEF StoreLen

LEMMA DoneType ==
  ASSUME TypeOK, NEW c \in Cores, Done(c)
  PROVE  /\ pc' \in [Cores -> Labels] /\ op' \in [Cores -> {"none", "malloc", "last", "free", "exit"}]
         /\ sp' \in [Cores -> Spans \cup {NoSpan}] /\ ep' \in [Cores -> Epochs]
         /\ ow' \in [Cores -> CoreIds] /\ cnt' \in [Cores -> 0 .. 2 * K]
         /\ pc'[c] = "idle" /\ sp'[c] = NoSpan /\ ow'[c] = kTerminated
         /\ Others(c)
<1>1. /\ pc \in [Cores -> Labels] /\ op \in [Cores -> {"none", "malloc", "last", "free", "exit"}]
      /\ sp \in [Cores -> Spans \cup {NoSpan}] /\ ep \in [Cores -> Epochs]
      /\ ow \in [Cores -> CoreIds] /\ cnt \in [Cores -> 0 .. 2 * K]
  BY DEF TypeOK
<1>2. "idle" \in Labels /\ 0 \in 0 .. 2 * K
  BY ObjectsAssumption DEF Labels
<1>3. NoEpoch \in Epochs
  BY BoundsAssumption, EpochType DEF NoEpoch, Marks
<1> QED
  BY <1>1, <1>2, <1>3, CoreIdFacts DEF Done, Others

(* What an operation at hand has: its span, and the identity of its core *)
LEMMA AtHand ==
  ASSUME Sound, NEW c \in Cores
  PROVE  /\ pc[c] \in Busy => sp[c] \in Spans /\ sp[c] \notin fresh
         /\ pc[c] \in Hot => hot[c] \in Spans /\ hot[c] \notin fresh
         /\ hot[c] # NoSpan => hot[c] \in Spans /\ hot[c] \notin fresh
         /\ pc[c] # "dead" => id[c] # kTerminated
         /\ NoEpoch \in Epochs
<1>0. TypeOK /\ CoreInv /\ IdInv
  BY StructureParts
<1>1. sp[c] \in Spans \cup {NoSpan} /\ hot[c] \in Spans \cup {NoSpan}
  BY <1>0 DEF TypeOK
<1>2. NoEpoch \in Epochs
  BY BoundsAssumption, EpochType DEF NoEpoch, Marks
<1> QED
  BY <1>0, <1>1, <1>2 DEF CoreInv, IdInv

(* Objects of a span in use *)
LEMMA ObjectSum ==
  ASSUME Sound, NEW s \in Spans, s \notin fresh
  PROVE  /\ local[s] + remote[s] + live[s] + InFlight(s) = K
         /\ local[s] \in Nat /\ remote[s] \in Nat /\ live[s] \in Nat /\ InFlight(s) \in Nat
         /\ visible[s] \in Nat /\ visible[s] <= K /\ K \in Nat
<1>1. local[s] + remote[s] + live[s] + InFlight(s) = K
  BY StructureParts DEF CountInv, ObjectsConserved
<1>2. TypeOK
  BY StructureParts
<1> QED
  BY <1>1, <1>2, Amounts

(* The object that a free has in its hands counts. *)
LEMMA FlyingCounts ==
  ASSUME NEW c \in Cores, pc[c] \in Flying
  PROVE  InFlight(sp[c]) >= 1 /\ InFlight(sp[c]) \in Nat
<1>1. PICK n : n = InFlight(sp[c])
  OBVIOUS
<1>2. n \in Nat /\ n # 0
  BY <1>1, InFlightFacts
<1> QED
  BY <1>1, <1>2

LEMMA TakeObjectType ==
  ASSUME Sound, NEW c \in Cores, TakeObject(c)
  PROVE  /\ TypeOK' /\ Others(c) /\ pc'[c] = "idle" /\ sp'[c] = NoSpan /\ ow'[c] = kTerminated
         /\ hot[c] \in Spans /\ hot[c] \notin fresh /\ broken' = broken
         /\ UNCHANGED << epoch, owner, remote, pool, fresh, coreVars >>
         /\ local'[hot[c]] = local[hot[c]] - 1 /\ live'[hot[c]] = live[hot[c]] + 1
         /\ \A t \in Spans \ {hot[c]} : /\ local'[t] = local[t] /\ live'[t] = live[t]
                                        /\ visible'[t] = visible[t]
<1>0. TypeOK
  BY StructureParts
<1>1. hot[c] # NoSpan /\ hot[c] \in Spans /\ hot[c] \notin fresh
  BY AtHand DEF TakeObject
<1> PICK s \in Spans : s = hot[c]
  BY <1>1
<1>2. /\ local[s] > 0 /\ StoreLen(s, local[s] - 1) /\ live' = [live EXCEPT ![s] = @ + 1]
      /\ Done(c) /\ UNCHANGED << epoch, owner, remote, pool, fresh, coreVars, broken >>
  BY DEF TakeObject
<1>3. local[s] - 1 \in 0 .. K /\ live[s] + 1 \in 0 .. K
  BY <1>1, <1>2, ObjectSum
<1>4. /\ local' \in [Spans -> 0 .. K] /\ visible' \in [Spans -> 0 .. K]
      /\ local'[s] = local[s] - 1
      /\ \A t \in Spans \ {s} : local'[t] = local[t] /\ visible'[t] = visible[t]
  BY <1>0, <1>2, <1>3, StoreLenType
<1>5. live \in [Spans -> 0 .. K]
  BY <1>0 DEF TypeOK
<1>6. /\ live' \in [Spans -> 0 .. K] /\ live'[s] = live[s] + 1
      /\ \A t \in Spans \ {s} : live'[t] = live[t]
  BY <1>2, <1>3, <1>5
<1>7. TypeOK'
  BY <1>0, <1>2, <1>4, <1>6, DoneType DEF TypeOK, coreVars
<1> QED
  BY <1>0, <1>1, <1>2, <1>4, <1>6, <1>7, DoneType

(* The types of the variables, apart from what counts objects *)
LEMMA Types ==
  ASSUME Sound
  PROVE  /\ TypeOK
         /\ epoch \in [Spans -> Epochs] /\ owner \in [Spans -> CoreIds]
         /\ pool \in SUBSET Spans /\ fresh \in SUBSET Spans
         /\ id \in [Cores -> CoreIds] /\ hot \in [Cores -> Spans \cup {NoSpan}]
         /\ rspans \in [Cores -> Seq(Spans)] /\ opened \in [Cores -> CoreIds]
         /\ threads \in 0 .. MaxThreads
         /\ pc \in [Cores -> Labels]
         /\ op \in [Cores -> {"none", "malloc", "last", "free", "exit"}]
         /\ sp \in [Cores -> Spans \cup {NoSpan}] /\ ep \in [Cores -> Epochs]
         /\ ow \in [Cores -> CoreIds] /\ cnt \in [Cores -> 0 .. 2 * K]
BY StructureParts DEF TypeOK

(* The step of a core is its own. *)
LEMMA OthersStep ==
  ASSUME Sound, NEW c \in Cores, Malloc(c) \/ Free(c) \/ Thread(c) \/ Drain(c)
  PROVE  Others(c)
<1>0. /\ TypeOK /\ pc \in [Cores -> Labels]
      /\ op \in [Cores -> {"none", "malloc", "last", "free", "exit"}]
      /\ sp \in [Cores -> Spans \cup {NoSpan}] /\ ep \in [Cores -> Epochs]
      /\ ow \in [Cores -> CoreIds] /\ cnt \in [Cores -> 0 .. 2 * K]
  BY Types
<1>1. CASE Malloc(c)
  <2>1. CASE MallocFast(c) \/ MallocLast(c)
    BY <2>1, TakeObjectType DEF MallocFast, MallocLast
  <2>2. CASE MallocNull(c)
    BY <2>2, <1>0, DoneType DEF MallocNull
  <2>3. CASE MallocNoSpan(c) \/ MallocSlow(c) \/ MallocRefill(c) \/ FloatLoad(c)
    BY <2>3, <1>0 DEF MallocNoSpan, MallocSlow, MallocRefill, FloatLoad, Goto, Others
  <2>4. CASE FloatStore(c)
    BY <2>4, <1>0 DEF FloatStore, Goto, Others
  <2>5. CASE GetRemove(c) \/ GetEpoch(c) \/ GetMove(c) \/ GetNew(c)
    BY <2>5, <1>0 DEF GetRemove, GetEpoch, GetMove, GetNew, Resume, Goto, Others
  <2>6. CASE GetHot(c)
    BY <2>6, <1>0 DEF GetHot, Goto, Others
  <2> QED
    BY <1>1, <2>1, <2>2, <2>3, <2>4, <2>5, <2>6 DEF Malloc
<1>2. CASE Free(c)
  <2>1. CASE (\E s \in Spans : FreeStart(c, s)) \/ FreeOwner(c)
    BY <2>1, <1>0 DEF FreeStart, FreeOwner, Goto, Others
  <2>2. CASE FreePush(c) \/ FreeCount(c) \/ FreeAlive(c)
    BY <2>2, <1>0 DEF FreePush, FreeCount, FreeAlive, Goto, Others
  <2>3. CASE FreeRevive(c) \/ FreeUnmark(c) \/ FreeUnlink(c)
    BY <2>3, <1>0 DEF FreeRevive, FreeUnmark, FreeUnlink, Goto, Others
  <2>4. CASE FreeNothing(c)
    BY <2>4, <1>0, DoneType DEF FreeNothing
  <2>5. CASE FreeFull(c) \/ FreeReuse(c)
    <3>1. CASE Done(c)
      BY <3>1, <1>0, DoneType
    <3>2. CASE ~Done(c)
      BY <2>5, <3>2, <1>0 DEF FreeFull, FreeReuse, Goto, Others
    <3> QED
      BY <3>1, <3>2
  <2>6. CASE FreeDelete(c) \/ FreeLink(c)
    <3>1. CASE Done(c)
      BY <3>1, <1>0, DoneType
    <3>2. CASE ~Done(c)
      BY <2>6, <3>2 DEF FreeDelete, FreeLink, opVars, Others
    <3> QED
      BY <3>1, <3>2
  <2> QED
    BY <1>2, <2>1, <2>2, <2>3, <2>4, <2>5, <2>6 DEF Free
<1>3. CASE Thread(c) \/ Drain(c)
  BY <1>3, <1>0
     DEF Thread, Drain, GetMeALAB, DestroyClose, DestroyRemove, DestroyEnd, Goto, Others, opVars
<1> QED
  BY <1>1, <1>2, <1>3

LEMMA MallocType ==
  ASSUME Sound, NEW c \in Cores, Malloc(c)
  PROVE  TypeOK'
<1>0. /\ TypeOK
      /\ epoch \in [Spans -> Epochs] /\ hot \in [Cores -> Spans \cup {NoSpan}]
      /\ pc \in [Cores -> Labels] /\ op \in [Cores -> {"none", "malloc", "last", "free", "exit"}]
      /\ sp \in [Cores -> Spans \cup {NoSpan}] /\ ep \in [Cores -> Epochs]
      /\ owner \in [Spans -> CoreIds] /\ id \in [Cores -> CoreIds]
      /\ pool \in SUBSET Spans /\ fresh \in SUBSET Spans
  BY Types
<1>1. CASE MallocFast(c) \/ MallocLast(c)
  BY <1>1, TakeObjectType DEF MallocFast, MallocLast
<1>2. CASE MallocNull(c)
  BY <1>2, <1>0, DoneType DEF MallocNull, TypeOK, spanVars, coreVars
<1>3. CASE MallocNoSpan(c) \/ MallocSlow(c)
  <2>1. /\ pc' \in [Cores -> Labels] /\ op' \in [Cores -> {"none", "malloc", "last", "free", "exit"}]
    BY <1>3, <1>0 DEF MallocNoSpan, MallocSlow, Goto, Labels
  <2> QED
    BY <1>3, <1>0, <2>1 DEF MallocNoSpan, MallocSlow, TypeOK, spanVars, coreVars
<1>4. CASE MallocRefill(c) \/ GetMove(c)
  <2>1. pc[c] \in Hot
    BY <1>4 DEF MallocRefill, GetMove, Hot
  <2>2. PICK s \in Spans : s = hot[c] /\ s \notin fresh
    BY <2>1, AtHand
  <2>3. local[s] + remote[s] \in 0 .. K
    BY <2>2, ObjectSum
  <2>4. pc' \in [Cores -> Labels]
    BY <1>4, <1>0 DEF MallocRefill, GetMove, Resume, Goto, Labels
  <2>5. local' \in [Spans -> 0 .. K] /\ visible' \in [Spans -> 0 .. K]
    <3>1. StoreLen(s, local[s] + remote[s]) \/ UNCHANGED << local, visible >>
      BY <1>4, <2>2 DEF MallocRefill, GetMove
    <3>2. CASE StoreLen(s, local[s] + remote[s])
      BY <3>2, <1>0, <2>3, StoreLenType
    <3>3. CASE UNCHANGED << local, visible >>
      BY <3>3, <1>0 DEF TypeOK
    <3> QED
      BY <3>1, <3>2, <3>3
  <2>6. remote' \in [Spans -> 0 .. K]
    <3>1. remote \in [Spans -> 0 .. K]
      BY <1>0 DEF TypeOK
    <3>2. 0 \in 0 .. K
      BY ObjectsAssumption
    <3> QED
      BY <1>4, <3>1, <3>2 DEF MallocRefill, GetMove
  <2> QED
    BY <1>4, <1>0, <2>4, <2>5, <2>6 DEF MallocRefill, GetMove, TypeOK, coreVars
<1>5. CASE FloatLoad(c)
  <2>1. hot[c] \in Spans
    BY <1>5, AtHand DEF FloatLoad, Hot
  <2>2. ep' \in [Cores -> Epochs] /\ pc' \in [Cores -> Labels]
    BY <1>5, <1>0, <2>1 DEF FloatLoad, Goto, Labels
  <2> QED
    BY <1>5, <1>0, <2>2 DEF FloatLoad, TypeOK, spanVars, coreVars
<1>6. CASE FloatStore(c)
  <2>1. hot[c] \in Spans /\ OnlyValue(ep[c]) \in Epochs /\ NoEpoch \in Epochs
    BY <1>6, <1>0, AtHand, OnlyValueType DEF FloatStore, Hot
  <2>2. /\ epoch' \in [Spans -> Epochs] /\ hot' \in [Cores -> Spans \cup {NoSpan}]
        /\ ep' \in [Cores -> Epochs]
    BY <1>6, <1>0, <2>1 DEF FloatStore
  <2>3. pc' \in [Cores -> Labels] /\ op' \in [Cores -> {"none", "malloc", "last", "free", "exit"}]
    BY <1>6, <1>0 DEF FloatStore, Goto, Labels
  <2>4. visible' \in [Spans -> 0 .. K]
    BY <1>6, <1>0, FenceType DEF FloatStore
  <2> QED
    BY <1>6, <1>0, <2>2, <2>3, <2>4 DEF FloatStore, TypeOK
<1>7. CASE GetRemove(c)
  <2>1. visible' \in [Spans -> 0 .. K]
    BY <1>7, <1>0, FenceType DEF GetRemove
  <2>2. pc' \in [Cores -> Labels]
    BY <1>7, <1>0 DEF GetRemove, Goto, Labels
  <2>3. rspans' \in [Cores -> Seq(Spans)] /\ sp' \in [Cores -> Spans \cup {NoSpan}]
    <3>1. CASE rspans[c] = << >>
      BY <1>7, <1>0, <3>1 DEF GetRemove, TypeOK
    <3>2. CASE rspans[c] # << >>
      <4>1. /\ rspans' \in [Cores -> Seq(Spans)] /\ sp'[c] \in Spans
        BY <1>7, <3>2, GetRemoveKeeps
      <4>2. sp' = [sp EXCEPT ![c] = sp'[c]]
        BY <1>7, <1>0, <3>2 DEF GetRemove
      <4> QED
        BY <1>0, <4>1, <4>2
    <3> QED
      BY <3>1, <3>2
  <2> QED
    BY <1>7, <1>0, <2>1, <2>2, <2>3 DEF GetRemove, TypeOK
<1>8. CASE GetEpoch(c)
  <2>1. sp[c] \in Spans
    BY <1>8, AtHand, Labelled DEF GetEpoch, Popping
  <2>2. ep' \in [Cores -> Epochs] /\ pc' \in [Cores -> Labels]
    BY <1>8, <1>0, <2>1 DEF GetEpoch, Goto, Labels
  <2> QED
    BY <1>8, <1>0, <2>2 DEF GetEpoch, TypeOK, spanVars, coreVars
<1>9. CASE GetHot(c)
  <2>1. PICK s \in Spans : s = sp[c]
    BY <1>9, AtHand, Labelled DEF GetHot, Popping
  <2>2. OnlyReuse(ep[c]) \in Epochs /\ EpochBound(OnlyReuse(ep[c]))
    BY <1>9, <1>0, OnlyReuseType DEF GetHot
  <2>3. Marked(OnlyReuse(ep[c]), "hot") \in Epochs
    BY <2>2, MarkedType DEF Marks
  <2>4. epoch' \in [Spans -> Epochs]
    BY <1>9, <1>0, <2>1, <2>3 DEF GetHot, Exchange, ExchangeFails
  <2>5. hot' \in [Cores -> Spans \cup {NoSpan}] /\ pc' \in [Cores -> Labels]
    BY <1>9, <1>0, <2>1 DEF GetHot, Goto, Labels
  <2>6. sp' \in [Cores -> Spans \cup {NoSpan}] /\ ep' \in [Cores -> Epochs]
    BY <1>9, <1>0, AtHand DEF GetHot
  <2>7. visible' \in [Spans -> 0 .. K]
    BY <1>9, <1>0, FenceType DEF GetHot
  <2>8. broken' \in {broken, "foreign hot span"}
    BY <1>9 DEF GetHot
  <2> QED
    BY <1>9, <1>0, <2>4, <2>5, <2>6, <2>7, <2>8 DEF GetHot, TypeOK
<1>10. CASE GetNew(c)
  <2>1. PICK s \in pool \cup fresh :
        /\ NewSpanEpoch(epoch[s]).value <= MaxEpoch
        /\ pool' = pool \ {s} /\ fresh' = fresh \ {s}
        /\ owner' = [owner EXCEPT ![s] = id[c]]
        /\ local' = [local EXCEPT ![s] = K]
        /\ visible' = [t \in Spans |->
                        IF t = s THEN K
                        ELSE IF owner[t] = id[c] THEN local[t] ELSE visible[t]]
        /\ remote' = [remote EXCEPT ![s] = 0]
        /\ epoch' = [epoch EXCEPT ![s] = NewSpanEpoch(@)]
        /\ hot' = [hot EXCEPT ![c] = s]
    BY <1>10 DEF GetNew
  <2>2. s \in Spans
    BY <1>0, <2>1
  <2>3. NewSpanEpoch(epoch[s]) \in Epochs
    <3>1. epoch[s] \in Epochs
      BY <1>0, <2>2
    <3>2. CASE epoch[s] # OnlyReuse(epoch[s])
      BY <3>1, <3>2 DEF NewSpanEpoch
    <3>3. CASE epoch[s] = OnlyReuse(epoch[s])
      <4>1. NewSpanEpoch(epoch[s]) = Marked(epoch[s], "hot")
        BY <3>3 DEF NewSpanEpoch
      <4>2. epoch[s].value + 1 <= MaxEpoch
        BY <2>1, <4>1 DEF Marked, Epoch
      <4>3. EpochBound(epoch[s])
        BY <3>1, <4>2, EpochFields, BoundsAssumption DEF EpochBound
      <4> QED
        BY <3>1, <4>1, <4>3, MarkedType DEF Marks
    <3> QED
      BY <3>2, <3>3
  <2>4. /\ epoch' \in [Spans -> Epochs] /\ owner' \in [Spans -> CoreIds]
        /\ hot' \in [Cores -> Spans \cup {NoSpan}]
        /\ pool' \in SUBSET Spans /\ fresh' \in SUBSET Spans
    BY <1>0, <2>1, <2>2, <2>3
  <2>5. /\ local' \in [Spans -> 0 .. K] /\ visible' \in [Spans -> 0 .. K]
        /\ remote' \in [Spans -> 0 .. K]
    <3>1. /\ local \in [Spans -> 0 .. K] /\ visible \in [Spans -> 0 .. K]
          /\ remote \in [Spans -> 0 .. K]
      BY <1>0 DEF TypeOK
    <3>2. K \in 0 .. K /\ 0 \in 0 .. K
      BY ObjectsAssumption
    <3> QED
      BY <2>1, <3>1, <3>2
  <2>6. pc' \in [Cores -> Labels]
    BY <1>10, <1>0 DEF GetNew, Resume, Goto, Labels
  <2> QED
    BY <1>10, <1>0, <2>4, <2>5, <2>6 DEF GetNew, TypeOK
<1> QED
  BY <1>1, <1>2, <1>3, <1>4, <1>5, <1>6, <1>7, <1>8, <1>9, <1>10 DEF Malloc

LEMMA FreeType ==
  ASSUME Sound, NEW c \in Cores, Free(c)
  PROVE  TypeOK'
<1>0. /\ TypeOK
      /\ epoch \in [Spans -> Epochs] /\ hot \in [Cores -> Spans \cup {NoSpan}]
      /\ pc \in [Cores -> Labels] /\ op \in [Cores -> {"none", "malloc", "last", "free", "exit"}]
      /\ sp \in [Cores -> Spans \cup {NoSpan}] /\ ep \in [Cores -> Epochs]
      /\ owner \in [Spans -> CoreIds] /\ id \in [Cores -> CoreIds] /\ ow \in [Cores -> CoreIds]
      /\ pool \in SUBSET Spans /\ fresh \in SUBSET Spans /\ cnt \in [Cores -> 0 .. 2 * K]
  BY Types
<1>k. K \in Nat
  BY ObjectsAssumption
<1>1. ASSUME NEW s \in Spans, FreeStart(c, s)
      PROVE  TypeOK'
  <2>1. live \in [Spans -> 0 .. K] /\ live[s] \in 0 .. K /\ live[s] > 0
    BY <1>0, <1>1 DEF TypeOK, FreeStart
  <2>2. live' \in [Spans -> 0 .. K]
    <3>1. live[s] - 1 \in 0 .. K
      BY <2>1, <1>k
    <3> QED
      BY <1>1, <2>1, <3>1 DEF FreeStart
  <2>3. /\ pc' \in [Cores -> Labels] /\ op' \in [Cores -> {"none", "malloc", "last", "free", "exit"}]
        /\ sp' \in [Cores -> Spans \cup {NoSpan}] /\ ep' \in [Cores -> Epochs]
    BY <1>0, <1>1 DEF FreeStart, Goto, Labels
  <2> QED
    BY <1>0, <1>1, <2>2, <2>3 DEF FreeStart, TypeOK, coreVars
<1>2. CASE FreeOwner(c)
  <2>1. sp[c] \in Spans
    BY <1>2, AtHand, Labelled DEF FreeOwner, Freeing
  <2>2. ow' \in [Cores -> CoreIds] /\ pc' \in [Cores -> Labels]
    BY <1>2, <1>0, <2>1 DEF FreeOwner, Goto, Labels
  <2> QED
    BY <1>2, <1>0, <2>2 DEF FreeOwner, TypeOK, spanVars, coreVars
<1>3. CASE FreePush(c)
  <2>0. pc[c] \in Flying /\ pc[c] \in Busy
    BY <1>3 DEF FreePush, Flying, Busy, Freeing
  <2>1. PICK s \in Spans : s = sp[c] /\ s \notin fresh
    BY <2>0, AtHand
  <2>2. local[s] + 1 \in 0 .. K /\ remote[s] + 1 \in 0 .. K
    <3>1. InFlight(s) >= 1 /\ InFlight(s) \in Nat
      BY <2>0, <2>1, FlyingCounts
    <3> QED
      BY <2>1, <3>1, ObjectSum
  <2>3. local' \in [Spans -> 0 .. K] /\ visible' \in [Spans -> 0 .. K] /\ remote' \in [Spans -> 0 .. K]
    <3>0. remote \in [Spans -> 0 .. K] /\ local \in [Spans -> 0 .. K]
      BY <1>0 DEF TypeOK
    <3>1. CASE owner[s] = id[c]
      <4>1. StoreLen(s, local[s] + 1) /\ remote' = remote
        BY <1>3, <2>1, <3>1 DEF FreePush
      <4> QED
        BY <1>0, <2>2, <3>0, <4>1, StoreLenType
    <3>2. CASE owner[s] # id[c]
      <4>1. remote' = [remote EXCEPT ![s] = remote[s] + 1] /\ Fence(c) /\ local' = local
        BY <1>3, <2>1, <3>2 DEF FreePush
      <4> QED
        BY <1>0, <2>2, <3>0, <4>1, FenceType
    <3> QED
      BY <3>1, <3>2
  <2>4. cnt' \in [Cores -> 0 .. 2 * K]
    <3>1. local[s] + 1 \in 0 .. 2 * K /\ remote[s] + 1 \in 0 .. 2 * K
      BY <2>2, <1>k
    <3> QED
      BY <1>3, <1>0, <2>1, <3>1 DEF FreePush
  <2>5. pc' \in [Cores -> Labels]
    BY <1>3, <1>0 DEF FreePush, Goto, Labels
  <2> QED
    BY <1>3, <1>0, <2>3, <2>4, <2>5 DEF FreePush, TypeOK, coreVars
<1>4. CASE FreeCount(c)
  <2>1. PICK s \in Spans : s = sp[c] /\ s \notin fresh
    BY <1>4, AtHand, Labelled DEF FreeCount, Freeing
  <2>2. cnt[c] \in Nat /\ cnt[c] <= K
    BY <1>4, <1>0, StructureParts DEF CountInv, FreeCount
  <2>3. cnt[c] + remote[s] \in 0 .. 2 * K /\ cnt[c] + visible[s] \in 0 .. 2 * K
    BY <2>2, <1>0, Amounts
  <2>4. cnt' \in [Cores -> 0 .. 2 * K]
    BY <1>4, <1>0, <2>1, <2>3 DEF FreeCount
  <2>5. pc' \in [Cores -> Labels]
    BY <1>4, <1>0 DEF FreeCount, Goto, Labels
  <2> QED
    BY <1>4, <1>0, <2>4, <2>5 DEF FreeCount, TypeOK, spanVars, coreVars
<1>5. CASE FreeAlive(c)
  <2>1. pc' \in [Cores -> Labels]
    BY <1>5, <1>0 DEF FreeAlive, Goto, Labels
  <2> QED
    BY <1>5, <1>0, <2>1 DEF FreeAlive, TypeOK, spanVars, coreVars
<1>6. CASE FreeRevive(c)
  <2>1. sp[c] \in Spans
    BY <1>6, AtHand, Labelled DEF FreeRevive, Freeing
  <2>2. owner' \in [Spans -> CoreIds] /\ ow' \in [Cores -> CoreIds] /\ pc' \in [Cores -> Labels]
    BY <1>6, <1>0, <2>1 DEF FreeRevive, Goto, Labels
  <2>3. visible' \in [Spans -> 0 .. K]
    BY <1>6, <1>0, FenceType DEF FreeRevive
  <2> QED
    BY <1>6, <1>0, <2>2, <2>3 DEF FreeRevive, TypeOK, coreVars
<1>7. CASE FreeUnmark(c)
  <2>1. sp[c] \in Spans /\ OnlyValue(ep[c]) \in Epochs
    BY <1>7, <1>0, AtHand, Labelled, OnlyValueType DEF FreeUnmark, Freeing
  <2>2. epoch' \in [Spans -> Epochs] /\ pc' \in [Cores -> Labels]
    BY <1>7, <1>0, <2>1 DEF FreeUnmark, Exchange, ExchangeFails, Goto, Labels
  <2>3. visible' \in [Spans -> 0 .. K]
    BY <1>7, <1>0, FenceType DEF FreeUnmark
  <2> QED
    BY <1>7, <1>0, <2>2, <2>3 DEF FreeUnmark, TypeOK, coreVars
<1>8. CASE FreeNothing(c)
  BY <1>8, <1>0, DoneType DEF FreeNothing, TypeOK, spanVars, coreVars
<1>9. CASE FreeFull(c)
  <2>1. sp[c] \in Spans /\ OnlyReuse(ep[c]) \in Epochs /\ EpochBound(OnlyReuse(ep[c]))
    BY <1>9, <1>0, AtHand, Labelled, OnlyReuseType DEF FreeFull, Freeing
  <2>2. Marked(OnlyReuse(ep[c]), "full") \in Epochs
    BY <2>1, MarkedType DEF Marks
  <2>3. epoch' \in [Spans -> Epochs]
    BY <1>9, <1>0, <2>1, <2>2 DEF FreeFull, Exchange, ExchangeFails
  <2>4. /\ pc' \in [Cores -> Labels] /\ op' \in [Cores -> {"none", "malloc", "last", "free", "exit"}]
        /\ sp' \in [Cores -> Spans \cup {NoSpan}] /\ ep' \in [Cores -> Epochs]
        /\ ow' \in [Cores -> CoreIds] /\ cnt' \in [Cores -> 0 .. 2 * K]
    <3>1. CASE Done(c)
      BY <3>1, <1>0, DoneType
    <3>2. CASE ~Done(c)
      BY <1>9, <1>0, <3>2 DEF FreeFull, Goto, Labels
    <3> QED
      BY <3>1, <3>2
  <2>5. visible' \in [Spans -> 0 .. K]
    BY <1>9, <1>0, FenceType DEF FreeFull
  <2> QED
    BY <1>9, <1>0, <2>3, <2>4, <2>5 DEF FreeFull, TypeOK, coreVars
<1>10. CASE FreeReuse(c)
  <2>1. sp[c] \in Spans /\ OnlyValue(ep[c]) \in Epochs /\ EpochBound(OnlyValue(ep[c]))
    BY <1>10, <1>0, AtHand, Labelled, OnlyValueType DEF FreeReuse, Freeing
  <2>2. Marked(OnlyValue(ep[c]), "reuse") \in Epochs
    BY <2>1, MarkedType DEF Marks
  <2>3. epoch' \in [Spans -> Epochs]
    BY <1>10, <1>0, <2>1, <2>2 DEF FreeReuse, Exchange, ExchangeFails
  <2>4. /\ pc' \in [Cores -> Labels] /\ op' \in [Cores -> {"none", "malloc", "last", "free", "exit"}]
        /\ sp' \in [Cores -> Spans \cup {NoSpan}] /\ ep' \in [Cores -> Epochs]
        /\ ow' \in [Cores -> CoreIds] /\ cnt' \in [Cores -> 0 .. 2 * K]
    <3>1. CASE Done(c)
      BY <3>1, <1>0, DoneType
    <3>2. CASE ~Done(c)
      BY <1>10, <1>0, <3>2 DEF FreeReuse, Goto, Labels
    <3> QED
      BY <3>1, <3>2
  <2>5. visible' \in [Spans -> 0 .. K]
    BY <1>10, <1>0, FenceType DEF FreeReuse
  <2> QED
    BY <1>10, <1>0, <2>3, <2>4, <2>5 DEF FreeReuse, TypeOK, coreVars
<1>11. CASE FreeUnlink(c)
  <2>1. rspans' \in [Cores -> Seq(Spans)]
    BY <1>11, FreeUnlinkKeeps
  <2>2. pc' \in [Cores -> Labels]
    BY <1>11, <1>0 DEF FreeUnlink, Goto, Labels
  <2>3. visible' \in [Spans -> 0 .. K]
    BY <1>11, <1>0, FenceType DEF FreeUnlink
  <2> QED
    BY <1>11, <1>0, <2>1, <2>2, <2>3 DEF FreeUnlink, TypeOK
<1>12. CASE FreeDelete(c)
  <2>1. sp[c] \in Spans
    BY <1>12, AtHand DEF FreeDelete, Busy, Informed
  <2>2. CASE Linked(sp[c])
    <3>1. broken' = "linked span deleted"
          /\ UNCHANGED << epoch, owner, local, visible, remote, live, pool, fresh, coreVars, opVars >>
      BY <1>12, <2>2 DEF FreeDelete
    <3> QED
      BY <1>0, <3>1 DEF TypeOK, coreVars, opVars
  <2>3. CASE ~Linked(sp[c])
    <3>1. /\ Fence(c) /\ Done(c) /\ pool' = pool \cup {sp[c]}
          /\ UNCHANGED << epoch, owner, local, remote, live, fresh, coreVars, broken >>
      BY <1>12, <2>3 DEF FreeDelete
    <3>2. visible' \in [Spans -> 0 .. K] /\ pool' \in SUBSET Spans
      BY <1>0, <2>1, <3>1, FenceType
    <3> QED
      BY <1>0, <3>1, <3>2, DoneType DEF TypeOK, coreVars
  <2> QED
    BY <2>2, <2>3
<1>13. CASE FreeLink(c)
  <2>1. visible' \in [Spans -> 0 .. K]
    BY <1>13, <1>0, FenceType DEF FreeLink
  <2>2. UNCHANGED << epoch, owner, local, remote, live, pool, fresh, id, hot, opened, threads >>
    BY <1>13 DEF FreeLink
  <2>3. CASE ListAccepts(c) /\ DeletedSince(c)
    <3>1. broken' = "deleted span linked" /\ UNCHANGED << rspans, opVars >>
      BY <1>13, <2>3 DEF FreeLink
    <3> QED
      BY <1>0, <2>1, <2>2, <3>1 DEF TypeOK, opVars
  <2>4. CASE ~(ListAccepts(c) /\ DeletedSince(c))
    <3>1. Done(c) /\ broken' = broken /\ (ListAccepts(c) \/ rspans' = rspans)
      BY <1>13, <2>4 DEF FreeLink
    <3>2. rspans' \in [Cores -> Seq(Spans)]
      BY <1>13, <1>0, <2>4, <3>1, FreeLinkKeeps DEF TypeOK
    <3> QED
      BY <1>0, <2>1, <2>2, <3>1, <3>2, DoneType DEF TypeOK
  <2> QED
    BY <2>3, <2>4
<1> QED
  BY <1>1, <1>2, <1>3, <1>4, <1>5, <1>6, <1>7, <1>8, <1>9, <1>10, <1>11, <1>12, <1>13 DEF Free

LEMMA ThreadType ==
  ASSUME Sound, NEW c \in Cores, Thread(c) \/ Drain(c)
  PROVE  TypeOK'
<1>0. /\ TypeOK /\ pc \in [Cores -> Labels]
      /\ op \in [Cores -> {"none", "malloc", "last", "free", "exit"}]
      /\ id \in [Cores -> CoreIds] /\ opened \in [Cores -> CoreIds]
  BY Types
<1>1. CASE GetMeALAB(c)
  <2>1. CoreId(c, threads + 1) \in CoreIds /\ threads' \in 0 .. MaxThreads
    BY <1>1, GetMeALABKeeps
  <2>2. id' \in [Cores -> CoreIds] /\ opened' \in [Cores -> CoreIds] /\ pc' \in [Cores -> Labels]
    BY <1>0, <1>1, <2>1 DEF GetMeALAB, InitCore, Goto, Labels
  <2> QED
    BY <1>0, <1>1, <2>1, <2>2 DEF GetMeALAB, TypeOK, spanVars
<1>2. CASE DestroyClose(c)
  <2>1. /\ opened' \in [Cores -> CoreIds] /\ pc' \in [Cores -> Labels]
        /\ op' \in [Cores -> {"none", "malloc", "last", "free", "exit"}]
    BY <1>0, <1>2, CoreIdFacts DEF DestroyClose, Goto, Labels
  <2> QED
    BY <1>0, <1>2, <2>1 DEF DestroyClose, TypeOK, spanVars
<1>3. CASE DestroyRemove(c)
  <2>1. rspans' \in [Cores -> Seq(Spans)]
    BY <1>3, DestroyRemoveKeeps
  <2>2. pc' \in [Cores -> Labels]
    BY <1>0, <1>3 DEF DestroyRemove, Goto, Labels
  <2>3. visible' \in [Spans -> 0 .. K]
    BY <1>0, <1>3, FenceType DEF DestroyRemove
  <2> QED
    BY <1>0, <1>3, <2>1, <2>2, <2>3 DEF DestroyRemove, TypeOK
<1>4. CASE DestroyEnd(c)
  <2>1. /\ id' \in [Cores -> CoreIds] /\ pc' \in [Cores -> Labels]
        /\ op' \in [Cores -> {"none", "malloc", "last", "free", "exit"}]
    BY <1>0, <1>4, CoreIdFacts DEF DestroyEnd, Goto, Labels
  <2> QED
    BY <1>0, <1>4, <2>1 DEF DestroyEnd, TypeOK, spanVars
<1>5. CASE Drain(c)
  <2>1. visible' \in [Spans -> 0 .. K]
    BY <1>0, <1>5, FenceType DEF Drain
  <2> QED
    BY <1>0, <1>5, <2>1 DEF Drain, TypeOK, coreVars, opVars
<1> QED
  BY <1>1, <1>2, <1>3, <1>4, <1>5 DEF Thread

-----------------------------------------------------------------------------
(* The steps that change no epoch, owner, list or identity *)

(* malloc or free returns. *)
LEMMA QuietDone ==
  ASSUME Sound, NEW c \in Cores, TypeOK', Others(c),
         UNCHANGED << epoch, owner, pool, fresh, id, hot, rspans, opened, threads >>,
         \A s \in Spans : live'[s] = live[s] \/ \E d \in Cores : hot[d] = s,
         pc[c] # "dead", pc[c] \notin {"free_unlink", "free_delete"},
         pc'[c] = "idle", sp'[c] = NoSpan, ow'[c] = kTerminated
  PROVE  Structure'
<1>0. TypeOK /\ HotInv /\ CoreInv /\ threads \in 0 .. MaxThreads /\ fresh \in SUBSET Spans
  BY StructureParts, Types
<1>1. /\ pc'[c] \notin Busy /\ pc'[c] \notin Hot /\ pc'[c] \notin Cold /\ pc'[c] \notin Informed
      /\ pc'[c] \notin Flying /\ pc'[c] \notin Freeing /\ pc'[c] \notin Popping
  BY DEF Busy, Freeing, Informed, Popping, Hot, Cold, Flying
<1>2. sp'[c] \notin fresh
  BY <1>0, NullAssumption
<1>3. ow'[c].tag <= threads
  BY <1>0, CoreIdFacts
<1>4. ASSUME NEW s \in Spans
      PROVE  \/ live'[s] = live[s]
             \/ s \notin pool /\ s \notin fresh /\ \A d \in Cores : ~Deleting(d, s)
  <2>1. ASSUME NEW d \in Cores, hot[d] = s
        PROVE  s \notin pool /\ s \notin fresh /\ \A f \in Cores : ~Deleting(f, s)
    BY <1>0, <2>1, NullAssumption DEF HotInv, CoreInv
  <2> QED
    BY <2>1
<1> QED
  BY <1>1, <1>2, <1>3, <1>4, QuietStep

(* A free goes on. *)
LEMMA QuietFree ==
  ASSUME Sound, NEW c \in Cores, TypeOK', Others(c),
         UNCHANGED << epoch, owner, live, pool, fresh, id, hot, rspans, opened, threads, sp, ep >>,
         pc[c] \in Freeing,
         pc'[c] \in {"free_push", "free_count", "free_alive", "free_revive", "free_mark"},
         pc'[c] = "free_push" => pc[c] = "free_owner",
         \/ pc[c] = "free_owner" /\ ow'[c] = owner[sp[c]]
         \/ pc[c] \in Informed /\ ow'[c] = ow[c],
         pc'[c] = "free_revive" => Over(ow'[c])
  PROVE  Structure'
<1>0. /\ TypeOK /\ IdInv /\ CoreInv /\ FreshInv /\ EpochInv /\ DeleteInv
  BY StructureParts
<1>1. /\ pc'[c] \in Busy /\ pc'[c] \notin Hot /\ pc'[c] \notin Cold /\ pc'[c] \in Informed
      /\ pc'[c] \in Freeing /\ pc'[c] \notin Popping /\ pc[c] \in Busy
      /\ pc'[c] \in Flying => pc[c] \in Flying
      /\ pc[c] \notin {"dead", "free_unlink", "free_delete"}
  BY DEF Busy, Freeing, Informed, Popping, Hot, Cold, Flying
<1>2. sp[c] \in Spans /\ sp[c] \notin fresh /\ sp[c] # NoSpan
  BY <1>1, AtHand, NullAssumption
<1>3. ow'[c].tag <= threads /\ ow'[c] # kTerminated
  BY <1>0, <1>2 DEF IdInv, CoreInv, FreshInv
<1>4. /\ EpochOf(c) /\ Past(ep[c], epoch[sp[c]])
  BY <1>0 DEF EpochInv, EpochOf
<1>5. ep[c].value = epoch[sp[c]].value =>
        /\ sp[c] \notin pool /\ \A d \in Cores : ~Deleting(d, sp[c])
        /\ owner[sp[c]] = ow'[c] \/ Over(ow'[c])
  BY <1>4 DEF EpochOf, Current
<1>6. pc'[c] \in Flying => sp[c] \notin pool /\ \A d \in Cores : ~Deleting(d, sp[c])
  BY <1>0, <1>1, <1>2 DEF DeleteInv
<1>7. /\ \A s \in Spans : live'[s] = live[s]
      /\ sp'[c] = sp[c] /\ ep'[c] = ep[c]
      /\ pc'[c] \notin {"float_load", "float_store"}
  OBVIOUS
<1> QED
  BY <1>1, <1>2, <1>3, <1>4, <1>5, <1>6, <1>7, QuietStep

(* malloc goes on, without a span at hand. *)
LEMMA QuietMalloc ==
  ASSUME Sound, NEW c \in Cores, TypeOK', Others(c),
         UNCHANGED << epoch, owner, live, pool, fresh, id, hot, rspans, opened, threads, ow >>,
         pc[c] # "dead", pc[c] \notin {"free_unlink", "free_delete"},
         sp'[c] = NoSpan,
         \/ pc'[c] \in {"get_remove", "get_new"} /\ hot[c] = NoSpan
         \/ /\ pc'[c] \in {"alloc", "alloc_last", "refill", "float_load", "float_store"}
            /\ hot[c] # NoSpan,
         pc'[c] \in {"float_load", "float_store"} => op'[c] = "malloc" \/ opened[c] = kTerminated,
         pc'[c] = "float_store" => ep'[c] = epoch[hot[c]]
  PROVE  Structure'
<1>0. /\ TypeOK /\ IdInv /\ fresh \in SUBSET Spans
  BY StructureParts, Types
<1>1. /\ pc'[c] \notin Busy /\ pc'[c] \notin Informed
      /\ pc'[c] \notin Freeing /\ pc'[c] \notin Popping /\ pc'[c] \notin Flying
      /\ pc'[c] \in Hot => hot[c] # NoSpan
      /\ pc'[c] \in Cold => hot[c] = NoSpan
  BY DEF Busy, Freeing, Informed, Popping, Hot, Cold, Flying
<1>2. sp'[c] \notin fresh
  BY <1>0, NullAssumption
<1>3. ow'[c].tag <= threads
  BY <1>0 DEF IdInv
<1>7. \A s \in Spans : live'[s] = live[s]
  OBVIOUS
<1> QED
  BY <1>1, <1>2, <1>3, <1>7, QuietStep

LEMMA MallocStructure ==
  ASSUME Sound, NEW c \in Cores, Malloc(c), broken' = "nothing"
  PROVE  Structure'
<1>0. /\ TypeOK /\ CoreInv /\ IdInv /\ LinkInv
      /\ epoch \in [Spans -> Epochs] /\ hot \in [Cores -> Spans \cup {NoSpan}]
      /\ pc \in [Cores -> Labels] /\ op \in [Cores -> {"none", "malloc", "last", "free", "exit"}]
      /\ sp \in [Cores -> Spans \cup {NoSpan}] /\ ep \in [Cores -> Epochs]
  BY Types, StructureParts
<1>t. TypeOK' /\ Others(c)
  BY MallocType, OthersStep
<1>1. CASE MallocFast(c) \/ MallocLast(c)
  <2>1. TakeObject(c) /\ pc[c] # "dead" /\ pc[c] \notin {"free_unlink", "free_delete"}
    BY <1>1 DEF MallocFast, MallocLast
  <2>2. /\ UNCHANGED << epoch, owner, pool, fresh, id, hot, rspans, opened, threads >>
        /\ pc'[c] = "idle" /\ sp'[c] = NoSpan /\ ow'[c] = kTerminated
        /\ \A t \in Spans \ {hot[c]} : live'[t] = live[t]
    BY <2>1, TakeObjectType DEF coreVars
  <2> QED
    BY <1>t, <2>1, <2>2, QuietDone
<1>2. CASE MallocNull(c)
  <2>1. /\ Done(c) /\ UNCHANGED << spanVars, coreVars >> /\ pc[c] = "alloc_last"
    BY <1>2 DEF MallocNull
  <2>2. UNCHANGED << epoch, owner, live, pool, fresh, id, hot, rspans, opened, threads >>
    BY <2>1 DEF spanVars, coreVars
  <2> QED
    BY <1>0, <1>t, <2>1, <2>2, DoneType, QuietDone
<1>3. CASE MallocNoSpan(c) \/ MallocSlow(c)
  <2>1. /\ UNCHANGED << epoch, owner, live, pool, fresh, id, hot, rspans, opened, threads, sp, ep, ow >>
        /\ pc[c] \in {"idle", "alloc"} /\ op'[c] = "malloc"
        /\ \/ hot[c] = NoSpan /\ pc'[c] = "get_remove"
           \/ hot[c] # NoSpan /\ pc'[c] \in {"refill", "float_load"}
    BY <1>0, <1>3 DEF MallocNoSpan, MallocSlow, Goto, spanVars, coreVars
  <2>2. pc[c] \notin Busy
    BY <2>1 DEF Busy, Freeing, Informed, Popping
  <2>3. sp'[c] = NoSpan
    BY <1>0, <2>1, <2>2 DEF CoreInv
  <2>4. pc'[c] # "float_store" /\ pc[c] # "dead" /\ pc[c] \notin {"free_unlink", "free_delete"}
    BY <2>1
  <2> QED
    BY <1>t, <2>1, <2>3, <2>4, QuietMalloc
<1>4. CASE MallocRefill(c) \/ GetMove(c)
  <2>1. /\ UNCHANGED << epoch, owner, live, pool, fresh, id, hot, rspans, opened, threads, op, sp, ep, ow >>
        /\ pc[c] \in {"refill", "get_move"} /\ pc'[c] \in {"alloc", "alloc_last"}
    BY <1>0, <1>4 DEF MallocRefill, GetMove, Resume, Goto, coreVars
  <2>2. pc[c] \notin Busy /\ pc[c] \in Hot
    BY <2>1 DEF Busy, Freeing, Informed, Popping, Hot
  <2>3. sp'[c] = NoSpan /\ hot[c] # NoSpan
    BY <1>0, <2>1, <2>2 DEF CoreInv
  <2>4. /\ pc'[c] \notin {"float_load", "float_store"} /\ pc[c] # "dead"
        /\ pc[c] \notin {"free_unlink", "free_delete"}
    BY <2>1
  <2> QED
    BY <1>t, <2>1, <2>3, <2>4, QuietMalloc
<1>5. CASE FloatLoad(c)
  <2>1. /\ UNCHANGED << epoch, owner, live, pool, fresh, id, hot, rspans, opened, threads, op, sp, ow >>
        /\ pc[c] = "float_load" /\ pc'[c] = "float_store" /\ ep'[c] = epoch[hot[c]]
    BY <1>0, <1>5 DEF FloatLoad, Goto, spanVars, coreVars
  <2>2. pc[c] \notin Busy /\ pc[c] \in Hot
    BY <2>1 DEF Busy, Freeing, Informed, Popping, Hot
  <2>3. sp'[c] = NoSpan /\ hot[c] # NoSpan /\ (op'[c] = "malloc" \/ opened[c] = kTerminated)
    BY <1>0, <2>1, <2>2 DEF CoreInv, IdInv
  <2>4. pc[c] # "dead" /\ pc[c] \notin {"free_unlink", "free_delete"}
    BY <2>1
  <2> QED
    BY <1>t, <2>1, <2>3, <2>4, QuietMalloc
<1>6. CASE FloatStore(c)
  BY <1>6, FloatStoreKeeps
<1>7. CASE GetRemove(c)
  <2>1. CASE rspans[c] # << >>
    BY <1>7, <2>1, GetRemoveKeeps
  <2>2. CASE rspans[c] = << >>
    <3>1. /\ UNCHANGED << epoch, owner, live, pool, fresh, id, hot, rspans, opened, threads, op, sp, ep, ow >>
          /\ pc[c] = "get_remove" /\ pc'[c] = "get_new"
      BY <1>0, <1>7, <2>2 DEF GetRemove, Goto
    <3>2. pc[c] \notin Busy /\ pc[c] \in Cold
      BY <3>1 DEF Busy, Freeing, Informed, Popping, Cold
    <3>3. sp'[c] = NoSpan /\ hot[c] = NoSpan
      BY <1>0, <3>1, <3>2 DEF CoreInv
    <3>4. /\ pc'[c] \notin {"float_load", "float_store"} /\ pc[c] # "dead"
          /\ pc[c] \notin {"free_unlink", "free_delete"}
      BY <3>1
    <3> QED
      BY <1>t, <3>1, <3>3, <3>4, QuietMalloc
  <2> QED
    BY <2>1, <2>2
<1>8. CASE GetEpoch(c)
  <2>1. /\ UNCHANGED << epoch, owner, live, pool, fresh, id, hot, rspans, opened, threads, op, sp, ow >>
        /\ pc[c] = "get_epoch" /\ pc'[c] = "get_hot"
    BY <1>0, <1>8 DEF GetEpoch, Goto, spanVars, coreVars
  <2>2. /\ pc[c] \in Busy /\ pc[c] \in Cold /\ pc[c] \in Popping
        /\ pc'[c] \in Busy /\ pc'[c] \in Cold /\ pc'[c] \notin Hot /\ pc'[c] \in Popping
        /\ pc'[c] \notin Informed /\ pc'[c] \notin Flying /\ pc'[c] \notin Freeing
    BY <2>1 DEF Busy, Freeing, Informed, Popping, Cold, Hot, Flying
  <2>3. /\ sp'[c] = sp[c] /\ sp'[c] # NoSpan /\ hot[c] = NoSpan /\ sp'[c] \notin fresh
        /\ ow'[c].tag <= threads
    BY <1>0, <2>1, <2>2 DEF CoreInv, IdInv
  <2>4. \A s \in Spans : live'[s] = live[s]
    BY <2>1
  <2>5. /\ pc'[c] \notin {"dead", "drain", "terminate", "free_unmark", "free_unlink",
                        "free_delete", "free_link", "float_load", "float_store", "free_revive"}
        /\ pc[c] # "dead" /\ pc[c] \notin {"free_unlink", "free_delete"}
    BY <2>1
  <2> QED
    BY <1>t, <2>1, <2>2, <2>3, <2>4, <2>5, QuietStep
<1>9. CASE GetHot(c)
  <2>1. CASE pc'[c] = "get_move"
    BY <1>9, <2>1, GetHotKeeps
  <2>2. CASE pc'[c] # "get_move"
    <3>1. /\ UNCHANGED << epoch, owner, live, pool, fresh, id, hot, rspans, opened, threads, op, ow >>
          /\ pc[c] = "get_hot" /\ pc'[c] = "get_remove" /\ sp'[c] = NoSpan
      BY <1>0, <1>9, <2>2 DEF GetHot, Goto, Exchange, ExchangeFails
    <3>2. pc[c] \in Cold
      BY <3>1 DEF Cold
    <3>3. hot[c] = NoSpan
      BY <1>0, <3>2 DEF CoreInv
    <3>4. /\ pc'[c] \notin {"float_load", "float_store"} /\ pc[c] # "dead"
          /\ pc[c] \notin {"free_unlink", "free_delete"}
      BY <3>1
    <3> QED
      BY <1>t, <3>1, <3>3, <3>4, QuietMalloc
  <2> QED
    BY <2>1, <2>2
<1>10. CASE GetNew(c)
  BY <1>10, GetNewKeeps
<1> QED
  BY <1>1, <1>2, <1>3, <1>4, <1>5, <1>6, <1>7, <1>8, <1>9, <1>10 DEF Malloc

LEMMA FreeStructure ==
  ASSUME Sound, NEW c \in Cores, Free(c), broken' = "nothing"
  PROVE  Structure'
<1>0. /\ TypeOK /\ CoreInv /\ IdInv /\ LinkInv /\ FreshInv /\ DeleteInv
      /\ epoch \in [Spans -> Epochs] /\ hot \in [Cores -> Spans \cup {NoSpan}]
      /\ pc \in [Cores -> Labels] /\ op \in [Cores -> {"none", "malloc", "last", "free", "exit"}]
      /\ sp \in [Cores -> Spans \cup {NoSpan}] /\ ep \in [Cores -> Epochs]
      /\ ow \in [Cores -> CoreIds]
  BY Types, StructureParts
<1>t. TypeOK' /\ Others(c)
  BY FreeType, OthersStep
<1>1. ASSUME NEW s \in Spans, FreeStart(c, s)
      PROVE  Structure'
  <2>1. /\ UNCHANGED << epoch, owner, pool, fresh, id, hot, rspans, opened, threads, ow >>
        /\ pc[c] = "idle" /\ pc'[c] = "free_owner" /\ sp'[c] = s /\ ep'[c] = epoch[s]
        /\ live[s] > 0 /\ live' = [live EXCEPT ![s] = @ - 1]
    BY <1>0, <1>1 DEF FreeStart, Goto, coreVars
  <2>2. s \notin pool /\ s \notin fresh /\ \A d \in Cores : ~Deleting(d, s)
    BY <1>0, <2>1 DEF FreshInv, DeleteInv
  <2>3. \A t \in Spans : t # s => live'[t] = live[t]
    BY <1>0, <2>1 DEF TypeOK
  <2>4. /\ pc'[c] \in Busy /\ pc'[c] \notin Cold /\ pc'[c] \notin Hot /\ pc'[c] \notin Popping
        /\ pc'[c] \notin Informed /\ pc'[c] \in Flying /\ pc'[c] \in Freeing
    BY <2>1 DEF Busy, Freeing, Informed, Popping, Cold, Hot, Flying
  <2>5. /\ pc'[c] \notin {"dead", "drain", "terminate", "free_unmark", "free_unlink",
                        "free_delete", "free_link", "float_load", "float_store", "free_revive"}
        /\ pc[c] # "dead" /\ pc[c] \notin {"free_unlink", "free_delete"}
    BY <2>1
  <2>6. s # NoSpan /\ ow'[c].tag <= threads /\ Past(ep'[c], epoch[s])
    BY <1>0, <2>1, NullAssumption DEF IdInv, Past
  <2>7. \A t \in Spans :
          \/ live'[t] = live[t]
          \/ t \notin pool /\ t \notin fresh /\ \A d \in Cores : ~Deleting(d, t)
    BY <2>2, <2>3
  <2> QED
    BY <1>t, <2>1, <2>2, <2>4, <2>5, <2>6, <2>7, QuietStep
<1>2. CASE FreeOwner(c)
  <2>1. /\ UNCHANGED << epoch, owner, live, pool, fresh, id, hot, rspans, opened, threads, sp, ep >>
        /\ pc[c] = "free_owner" /\ pc'[c] = "free_push" /\ ow'[c] = owner[sp[c]]
    BY <1>0, <1>2 DEF FreeOwner, Goto, spanVars, coreVars
  <2>2. pc[c] \in Freeing
    BY <2>1 DEF Freeing
  <2>3. pc'[c] # "free_revive" /\ pc'[c] \in {"free_push", "free_count", "free_alive", "free_revive", "free_mark"}
    BY <2>1
  <2> QED
    BY <1>t, <2>1, <2>2, <2>3, QuietFree
<1>3. CASE FreePush(c) \/ FreeCount(c)
  <2>1. /\ UNCHANGED << epoch, owner, live, pool, fresh, id, hot, rspans, opened, threads, sp, ep, ow >>
        /\ \/ pc[c] = "free_push" /\ pc'[c] = "free_count"
           \/ pc[c] = "free_count" /\ pc'[c] = "free_alive"
    BY <1>0, <1>3 DEF FreePush, FreeCount, Goto, spanVars, coreVars
  <2>2. pc[c] \in Freeing /\ pc[c] \in Informed
    BY <2>1 DEF Freeing, Informed
  <2>3. /\ pc'[c] \notin {"free_revive", "free_push"}
        /\ pc'[c] \in {"free_push", "free_count", "free_alive", "free_revive", "free_mark"}
    BY <2>1
  <2> QED
    BY <1>t, <2>1, <2>2, <2>3, QuietFree
<1>4. CASE FreeAlive(c)
  <2>1. /\ UNCHANGED << epoch, owner, live, pool, fresh, id, hot, rspans, opened, threads, sp, ep, ow >>
        /\ pc[c] = "free_alive" /\ pc'[c] \in {"free_mark", "free_revive"}
        /\ pc'[c] = "free_revive" => id[ow[c].core] # ow[c]
    BY <1>0, <1>4 DEF FreeAlive, Goto, spanVars, coreVars
  <2>2. pc[c] \in Freeing /\ pc[c] \in Informed
    BY <2>1 DEF Freeing, Informed
  <2>3. /\ pc'[c] # "free_push"
        /\ pc'[c] \in {"free_push", "free_count", "free_alive", "free_revive", "free_mark"}
    BY <2>1
  <2>4. pc'[c] = "free_revive" => Over(ow[c])
    BY <1>0, <2>1, <2>2 DEF Over, IdInv, CoreInv
  <2> QED
    BY <1>t, <2>1, <2>2, <2>3, <2>4, QuietFree
<1>5. CASE FreeRevive(c)
  <2>1. CASE pc'[c] = "free_unmark"
    BY <1>5, <2>1, FreeReviveKeeps
  <2>2. CASE pc'[c] # "free_unmark"
    <3>1. /\ UNCHANGED << epoch, owner, live, pool, fresh, id, hot, rspans, opened, threads, sp, ep, ow >>
          /\ pc[c] = "free_revive" /\ pc'[c] = "free_mark"
      BY <1>0, <1>5, <2>2 DEF FreeRevive, Goto, coreVars
    <3>2. pc[c] \in Freeing /\ pc[c] \in Informed
      BY <3>1 DEF Freeing, Informed
    <3>3. /\ pc'[c] \notin {"free_revive", "free_push"}
          /\ pc'[c] \in {"free_push", "free_count", "free_alive", "free_revive", "free_mark"}
      BY <3>1
    <3> QED
      BY <1>t, <3>1, <3>2, <3>3, QuietFree
  <2> QED
    BY <2>1, <2>2
<1>6. CASE FreeUnmark(c)
  <2>1. CASE epoch' # epoch
    BY <1>6, <2>1, FreeUnmarkKeeps
  <2>2. CASE epoch' = epoch
    <3>1. /\ UNCHANGED << epoch, owner, live, pool, fresh, id, hot, rspans, opened, threads, sp, ep, ow >>
          /\ pc[c] = "free_unmark" /\ pc'[c] = "free_mark"
      BY <1>0, <1>6, <2>2 DEF FreeUnmark, Goto, coreVars
    <3>2. pc[c] \in Freeing /\ pc[c] \in Informed
      BY <3>1 DEF Freeing, Informed
    <3>3. /\ pc'[c] \notin {"free_revive", "free_push"}
          /\ pc'[c] \in {"free_push", "free_count", "free_alive", "free_revive", "free_mark"}
      BY <3>1
    <3> QED
      BY <1>t, <3>1, <3>2, <3>3, QuietFree
  <2> QED
    BY <2>1, <2>2
<1>7. CASE FreeNothing(c)
  <2>1. /\ Done(c) /\ UNCHANGED << spanVars, coreVars >> /\ pc[c] = "free_mark"
    BY <1>7 DEF FreeNothing
  <2>2. UNCHANGED << epoch, owner, live, pool, fresh, id, hot, rspans, opened, threads >>
    BY <2>1 DEF spanVars, coreVars
  <2> QED
    BY <1>0, <1>t, <2>1, <2>2, DoneType, QuietDone
<1>8. CASE FreeFull(c) \/ FreeReuse(c)
  <2>1. CASE pc'[c] # "idle"
    BY <1>8, <2>1, FreeFullKeeps, FreeReuseKeeps
  <2>2. CASE pc'[c] = "idle"
    <3>1. /\ UNCHANGED << epoch, owner, live, pool, fresh, id, hot, rspans, opened, threads >>
          /\ pc[c] = "free_mark" /\ Done(c)
      BY <1>0, <1>8, <2>2 DEF FreeFull, FreeReuse, Goto, Exchange, ExchangeFails, coreVars
    <3> QED
      BY <1>0, <1>t, <3>1, DoneType, QuietDone
  <2> QED
    BY <2>1, <2>2
<1>9. CASE FreeUnlink(c)
  BY <1>9, FreeUnlinkKeeps
<1>10. CASE FreeDelete(c)
  <2>1. Done(c)
    BY <1>10 DEF FreeDelete
  <2> QED
    BY <1>0, <1>10, <2>1, DoneType, FreeDeleteKeeps
<1>11. CASE FreeLink(c)
  <2>1. CASE ListAccepts(c)
    <3>1. ~DeletedSince(c)
      BY <1>11, <2>1 DEF FreeLink
    <3> QED
      BY <1>11, <2>1, <3>1, FreeLinkKeeps
  <2>2. CASE ~ListAccepts(c)
    <3>1. /\ UNCHANGED << epoch, owner, live, pool, fresh, id, hot, rspans, opened, threads >>
          /\ pc[c] = "free_link" /\ Done(c)
      BY <1>11, <2>2 DEF FreeLink
    <3> QED
      BY <1>0, <1>t, <3>1, DoneType, QuietDone
  <2> QED
    BY <2>1, <2>2
<1> QED
  BY <1>1, <1>2, <1>3, <1>4, <1>5, <1>6, <1>7, <1>8, <1>9, <1>10, <1>11 DEF Free

(* Nothing happens to the structure. *)
LEMMA StructureSame ==
  ASSUME Structure,
         UNCHANGED << epoch, owner, live, pool, fresh, id, hot, rspans, opened, threads,
                      pc, op, sp, ep, ow >>
  PROVE  Structure'
<1>0. /\ IdInv /\ CoreInv /\ FreshInv /\ HotInv /\ MarkInv /\ DeleteInv
      /\ EpochInv /\ LinkInv /\ OnceInv
  BY DEF Structure
<1>1. UNCHANGED << epoch, owner, live, pool, fresh, id, hot, rspans, opened, threads,
                   pc, op, sp, ep, ow >>
  OBVIOUS
<1>2. /\ \A d, t : Deleting(d, t)' <=> Deleting(d, t)
      /\ \A d, t : InList(d, t)' <=> InList(d, t)
      /\ \A d, t : Carries(d, t)' <=> Carries(d, t)
      /\ \A d : ListAccepts(d)' <=> ListAccepts(d)
      /\ \A d : Current(d)' <=> Current(d)
      /\ \A i : Over(i)' <=> Over(i)
  BY <1>1 DEF Deleting, InList, Carries, ListAccepts, Current, Over
<1>3. \A d, t : Links(d, t)' <=> Links(d, t)
  BY <1>1, <1>2 DEF Links
<1>4. IdInv' /\ CoreInv' /\ FreshInv' /\ OnceInv'
  BY <1>0, <1>1, <1>2 DEF IdInv, CoreInv, FreshInv, OnceInv
<1>5. HotInv' /\ MarkInv' /\ DeleteInv'
  BY <1>0, <1>1, <1>2 DEF HotInv, MarkInv, DeleteInv
<1>6. EpochInv'
  BY <1>0, <1>1, <1>2, <1>3 DEF EpochInv, EpochOf
<1>7. LinkInv'
  BY <1>0, <1>1, <1>2, <1>3 DEF LinkInv
<1> QED
  BY <1>4, <1>5, <1>6, <1>7 DEF Structure

(* A store buffer is drained: others see another length. *)
LEMMA DrainStructure ==
  ASSUME Sound, NEW c \in Cores, Drain(c)
  PROVE  Structure'
BY StructureSame DEF Sound, Drain, coreVars, opVars

LEMMA StructureStep ==
  ASSUME Sound, NEW c \in Cores, Malloc(c) \/ Free(c) \/ Thread(c) \/ Drain(c),
         broken' = "nothing"
  PROVE  Structure'
<1>1. CASE Thread(c)
  BY <1>1, GetMeALABKeeps, DestroyCloseKeeps, DestroyRemoveKeeps, DestroyEndKeeps DEF Thread
<1> QED
  BY <1>1, MallocStructure, FreeStructure, DrainStructure

-----------------------------------------------------------------------------
(* Epochs only go on *)

LEMMA EpochStep ==
  ASSUME Sound, NEW c \in Cores, Malloc(c) \/ Free(c) \/ Thread(c) \/ Drain(c),
         NEW s \in Spans
  PROVE  Past(epoch[s], epoch'[s])
<1>0. /\ TypeOK /\ HotInv /\ CoreInv /\ FreshInv /\ DeleteInv
      /\ epoch \in [Spans -> Epochs] /\ hot \in [Cores -> Spans \cup {NoSpan}]
      /\ ep \in [Cores -> Epochs] /\ pool \in SUBSET Spans /\ fresh \in SUBSET Spans
  BY Types, StructureParts
<1>1. CASE epoch'[s] = epoch[s]
  BY <1>1 DEF Past
<1>2. CASE epoch'[s] # epoch[s]
  <2>1. \/ FloatStore(c) \/ GetHot(c) \/ GetNew(c) \/ FreeUnmark(c) \/ FreeFull(c) \/ FreeReuse(c)
    <3>1. epoch' # epoch
      BY <1>2
    <3>2. CASE Malloc(c)
      BY <3>1, <3>2
         DEF Malloc, MallocNoSpan, MallocFast, MallocLast, MallocSlow, MallocRefill, MallocNull,
             TakeObject, FloatLoad, GetRemove, GetEpoch, GetMove, spanVars
    <3>3. CASE Free(c)
      BY <3>1, <3>3
         DEF Free, FreeStart, FreeOwner, FreePush, FreeCount, FreeAlive, FreeRevive,
             FreeNothing, FreeUnlink, FreeDelete, FreeLink, spanVars
    <3>4. CASE Thread(c) \/ Drain(c)
      BY <3>1, <3>4
         DEF Thread, Drain, GetMeALAB, DestroyClose, DestroyRemove, DestroyEnd, spanVars
    <3> QED
      BY <3>2, <3>3, <3>4
  <2>2. CASE FloatStore(c)
    <3>1. hot[c] # NoSpan /\ ep[c] = epoch[hot[c]] /\ epoch' = [epoch EXCEPT ![hot[c]] = OnlyValue(ep[c])]
      BY <2>2, <1>0 DEF FloatStore, CoreInv, Hot, HotInv
    <3>2. s = hot[c] /\ epoch'[s] = OnlyValue(epoch[s]) /\ epoch[s] \in Epochs
      BY <1>0, <1>2, <3>1
    <3> QED
      BY <3>2, OnlyValueType DEF Past
  <2>3. CASE GetHot(c)
    <3>1. /\ epoch[s] = OnlyReuse(ep[c]) /\ EpochBound(epoch[s])
          /\ epoch'[s] = Marked(epoch[s], "hot") /\ epoch[s] \in Epochs
      BY <2>3, <1>0, <1>2 DEF GetHot, Exchange, ExchangeFails
    <3>2. epoch'[s].value = epoch[s].value + 1 /\ epoch[s].value \in Nat
      BY <3>1, MarkedType, EpochFields DEF Marks
    <3> QED
      BY <3>2 DEF Past
  <2>4. CASE GetNew(c)
    <3>1. /\ epoch'[s] = NewSpanEpoch(epoch[s]) /\ epoch[s] \in Epochs
      BY <2>4, <1>0, <1>2 DEF GetNew
    <3>2. epoch'[s].value = epoch[s].value + 1 /\ epoch[s].value \in Nat
      BY <3>1, <1>2, EpochFields DEF NewSpanEpoch, Marked, Epoch
    <3> QED
      BY <3>2 DEF Past
  <2>5. CASE FreeUnmark(c)
    <3>1. epoch[s] = ep[c] /\ epoch'[s] = OnlyValue(epoch[s]) /\ epoch[s] \in Epochs
      BY <2>5, <1>0, <1>2 DEF FreeUnmark, Exchange, ExchangeFails
    <3> QED
      BY <3>1, OnlyValueType DEF Past
  <2>6. CASE FreeFull(c)
    <3>1. /\ epoch[s] = OnlyReuse(ep[c]) /\ EpochBound(epoch[s])
          /\ epoch'[s] = Marked(epoch[s], "full") /\ epoch[s] \in Epochs
      BY <2>6, <1>0, <1>2 DEF FreeFull, Exchange, ExchangeFails
    <3>2. epoch'[s].value = epoch[s].value + 1 /\ epoch[s].value \in Nat
      BY <3>1, MarkedType, EpochFields DEF Marks
    <3> QED
      BY <3>2 DEF Past
  <2>7. CASE FreeReuse(c)
    <3>1. /\ epoch[s] = OnlyValue(ep[c]) /\ EpochBound(epoch[s])
          /\ epoch'[s] = Marked(epoch[s], "reuse") /\ epoch[s] \in Epochs
      BY <2>7, <1>0, <1>2 DEF FreeReuse, Exchange, ExchangeFails
    <3>2. epoch'[s].value = epoch[s].value + 1 /\ epoch[s].value \in Nat
      BY <3>1, MarkedType, EpochFields DEF Marks
    <3> QED
      BY <3>2 DEF Past
  <2> QED
    BY <2>1, <2>2, <2>3, <2>4, <2>5, <2>6, <2>7
<1> QED
  BY <1>1, <1>2

-----------------------------------------------------------------------------
(* Objects *)

(* A free that has counted *)
Counted == {"free_alive", "free_revive", "free_unmark", "free_mark"}

(* Two epochs that are each other's past are one. *)
LEMMA PastOnce ==
  ASSUME NEW e \in Epochs, NEW f \in Epochs, Past(e, f), Past(f, e)
  PROVE  e = f
BY EpochFields, EpochEqual DEF Past

(* A span whose epoch nothing has happened to floats. *)
LEMMA StillFloats ==
  ASSUME Sound, NEW d \in Cores, Still(d)
  PROVE  /\ sp[d] \in Spans /\ sp[d] \notin fresh /\ sp[d] \notin pool
         /\ \A f \in Cores : hot[f] # sp[d]
<1>1. sp[d] \in Spans /\ sp[d] \notin fresh
  BY AtHand, Labelled DEF Still
<1>2. PICK s \in Spans : s = sp[d]
  BY <1>1
<1>3. epoch[s] \in Epochs /\ ep[d] = epoch[s]
  BY <1>2, Types DEF Still
<1>4. epoch[s].mark \in {"none", "reuse"}
  BY <1>3, EpochFields DEF Still, IsFloatingOrReusable, IsFull, IsHot, Marks
<1> QED
  BY <1>1, <1>2, <1>4, Floating

LEMMA StillKept ==
  ASSUME Sound, TypeOK', NEW d \in Cores, \A s \in Spans : Past(epoch[s], epoch'[s]),
         pc[d] \in Freeing, sp'[d] = sp[d], ep'[d] = ep[d], Still(d)'
  PROVE  Still(d)
<1>1. sp[d] \in Spans
  BY AtHand, Labelled
<1>2. PICK s \in Spans : s = sp[d]
  BY <1>1
<1>3. ep[d] \in Epochs /\ epoch[s] \in Epochs /\ ep[d] = epoch'[s] /\ IsFloatingOrReusable(ep[d])
  BY <1>2, Types DEF Still
<1>4. Past(ep[d], epoch[s]) /\ Past(epoch[s], ep[d])
  BY <1>2, <1>3, StructureParts DEF EpochInv, EpochOf
<1>5. ep[d] = epoch[s]
  BY <1>3, <1>4, PastOnce
<1> QED
  BY <1>2, <1>3, <1>5 DEF Still

(* Who is on the way to a free list *)
LEMMA InFlightSame ==
  ASSUME NEW c \in Cores, Others(c),
         \/ pc[c] \notin Flying /\ pc'[c] \notin Flying
         \/ pc[c] \in Flying /\ pc'[c] \in Flying /\ sp'[c] = sp[c],
         NEW s
  PROVE  InFlight(s)' = InFlight(s)
<1>1. {d \in Cores : sp'[d] = s /\ pc'[d] \in Flying} = {d \in Cores : sp[d] = s /\ pc[d] \in Flying}
  BY DEF Others
<1> QED
  BY <1>1 DEF InFlight, Flying

LEMMA InFlightIn ==
  ASSUME NEW c \in Cores, Others(c), pc[c] \notin Flying, pc'[c] \in Flying, NEW s
  PROVE  InFlight(s)' = IF s = sp'[c] THEN InFlight(s) + 1 ELSE InFlight(s)
<1> DEFINE S == {d \in Cores : sp[d] = s /\ pc[d] \in Flying}
           T == {d \in Cores : sp'[d] = s /\ pc'[d] \in Flying}
<1>1. IsFiniteSet(S) /\ Cardinality(S) \in Nat
  BY CoresAssumption, FS_Subset, FS_CardinalityType
<1>2. CASE s = sp'[c]
  <2>1. T = S \cup {c} /\ c \notin S
    BY <1>2 DEF Others
  <2>2. Cardinality(T) = Cardinality(S) + 1
    BY <1>1, <2>1, FS_AddElement
  <2> QED
    BY <1>2, <2>2 DEF InFlight, Flying
<1>3. CASE s # sp'[c]
  <2>1. T = S
    BY <1>3 DEF Others
  <2> QED
    BY <1>3, <2>1 DEF InFlight, Flying
<1> QED
  BY <1>2, <1>3

LEMMA InFlightOut ==
  ASSUME NEW c \in Cores, Others(c), pc[c] \in Flying, pc'[c] \notin Flying, NEW s
  PROVE  InFlight(s) = IF s = sp[c] THEN InFlight(s)' + 1 ELSE InFlight(s)'
<1> DEFINE S == {d \in Cores : sp[d] = s /\ pc[d] \in Flying}
           T == {d \in Cores : sp'[d] = s /\ pc'[d] \in Flying}
<1>1. IsFiniteSet(T) /\ Cardinality(T) \in Nat
  BY CoresAssumption, FS_Subset, FS_CardinalityType
<1>2. CASE s = sp[c]
  <2>1. S = T \cup {c} /\ c \notin T
    BY <1>2 DEF Others
  <2>2. Cardinality(S) = Cardinality(T) + 1
    BY <1>1, <2>1, FS_AddElement
  <2> QED
    BY <1>2, <2>2 DEF InFlight, Flying
<1>3. CASE s # sp[c]
  <2>1. T = S
    BY <1>3 DEF Others
  <2> QED
    BY <1>3, <2>1 DEF InFlight, Flying
<1> QED
  BY <1>2, <1>3

(* What is left to say about a step: that no object is lost, and that the  *)
(* count of the core that takes it holds.                                  *)
LEMMA CountKept ==
  ASSUME Sound, NEW c \in Cores, Others(c), TypeOK',
         \A s \in Spans : Past(epoch[s], epoch'[s]),
         ObjectsConserved',
         \A s \in Spans : (\A d \in Cores : hot'[d] # s) => visible'[s] <= local'[s],
         \A s \in Spans : s \notin fresh /\ s \notin pool /\ (\A d \in Cores : hot[d] # s) =>
           /\ local[s] <= local'[s] /\ remote[s] <= remote'[s]
           /\ \/ owner'[s] = owner[s]
              \/ owner'[s] = id[c] /\ id[c] # kTerminated /\ Over(owner[s]),
         \A d \in Cores \ {c} : id'[d] = id[d],
         \/ pc'[c] \notin Counted \cup {"free_count"}
         \/ /\ sp'[c] = sp[c] /\ ep'[c] = ep[c] /\ cnt'[c] = cnt[c]
            /\ \/ pc[c] \in Counted /\ pc'[c] \in Counted
               \/ pc'[c] = pc[c] /\ owner' = owner /\ id' = id
         \/ /\ pc'[c] = "free_count" => cnt'[c] <= K
            /\ Still(c)' =>
                 /\ pc'[c] = "free_count" =>
                      cnt'[c] <= IF owner'[sp'[c]] = id'[c] THEN local'[sp'[c]] ELSE remote'[sp'[c]]
                 /\ pc'[c] \in Counted => cnt'[c] <= local'[sp'[c]] + remote'[sp'[c]]
  PROVE  CountInv'
<1>0. CountInv /\ IdInv /\ TypeOK
  BY StructureParts
<1>1. \A d \in Cores : pc'[d] = "free_count" => cnt'[d] <= K
  BY <1>0 DEF CountInv, Others, Counted
<1>2. ASSUME NEW d \in Cores, Still(d)'
      PROVE  /\ pc'[d] = "free_count" =>
                  cnt'[d] <= IF owner'[sp'[d]] = id'[d] THEN local'[sp'[d]] ELSE remote'[sp'[d]]
             /\ pc'[d] \in Counted => cnt'[d] <= local'[sp'[d]] + remote'[sp'[d]]
  <2>1. CASE /\ d # c \/ (pc'[c] = pc[c] /\ owner' = owner /\ id' = id)
                      \/ (pc[c] \in Counted /\ pc'[c] \in Counted)
             /\ sp'[d] = sp[d] /\ ep'[d] = ep[d] /\ cnt'[d] = cnt[d]
    <3>1. /\ pc'[d] = pc[d] \/ (pc[d] \in Counted /\ pc'[d] \in Counted)
          /\ pc'[d] \in Freeing
      BY <1>2, <2>1 DEF Others, Still
    <3>2. pc[d] \in Freeing
      BY <3>1 DEF Counted, Freeing
    <3>3. Still(d)
      BY <1>2, <2>1, <3>2, StillKept
    <3>4. /\ sp[d] \in Spans /\ sp[d] \notin fresh /\ sp[d] \notin pool
          /\ \A f \in Cores : hot[f] # sp[d]
      BY <3>3, StillFloats
    <3>5. PICK s \in Spans : s = sp[d]
      BY <3>4
    <3>6. /\ local[s] <= local'[s] /\ remote[s] <= remote'[s]
          /\ \/ owner'[s] = owner[s]
             \/ owner'[s] = id[c] /\ id[c] # kTerminated /\ Over(owner[s])
      BY <3>4, <3>5
    <3>7. /\ local[s] \in Nat /\ remote[s] \in Nat /\ local'[s] \in Nat /\ remote'[s] \in Nat
          /\ cnt[d] \in Nat
      <4>1. local[s] \in Nat /\ remote[s] \in Nat
        BY <1>0, Amounts
      <4>2. local'[s] \in 0 .. K /\ remote'[s] \in 0 .. K
        BY DEF TypeOK
      <4>3. cnt[d] \in 0 .. 2 * K
        BY <1>0 DEF TypeOK
      <4> QED
        BY <4>1, <4>2, <4>3, ObjectsAssumption
    <3>8. CASE pc'[d] \in Counted
      <4>1. pc[d] \in Counted
        BY <3>1, <3>8
      <4>2. cnt[d] <= local[s] + remote[s]
        BY <1>0, <3>3, <3>5, <4>1 DEF CountInv, Counted
      <4>3. pc'[d] # "free_count"
        BY <3>8 DEF Counted
      <4>4. cnt'[d] <= local'[s] + remote'[s]
        BY <2>1, <3>6, <3>7, <4>2
      <4> QED
        BY <2>1, <3>5, <4>3, <4>4
    <3>9. CASE pc'[d] = "free_count"
      <4>1. pc[d] = "free_count" /\ pc'[d] \notin Counted
        BY <3>1, <3>9 DEF Counted
      <4>2. cnt[d] <= IF owner[s] = id[d] THEN local[s] ELSE remote[s]
        BY <1>0, <3>3, <3>5, <4>1 DEF CountInv
      <4>3. id'[d] = id[d]
        BY <2>1, <4>1 DEF Counted
      <4>4. CASE owner'[s] = owner[s]
        BY <2>1, <3>5, <3>6, <3>7, <4>1, <4>2, <4>3, <4>4
      <4>5. CASE owner'[s] # owner[s]
        <5>1. owner'[s] = id[c] /\ id[c] # kTerminated /\ owner[s] # id[d] /\ d # c
          BY <2>1, <3>6, <4>1, <4>5 DEF Over, Counted
        <5>2. owner'[s] # id'[d]
          BY <1>0, <4>3, <5>1, IdsApart
        <5> QED
          BY <2>1, <3>5, <3>6, <3>7, <4>1, <4>2, <5>1, <5>2
      <4> QED
        BY <4>4, <4>5
    <3> QED
      BY <3>8, <3>9
  <2>2. CASE d = c /\ pc'[c] \notin Counted \cup {"free_count"}
    BY <2>2
  <2>3. d # c => sp'[d] = sp[d] /\ ep'[d] = ep[d] /\ cnt'[d] = cnt[d]
    BY DEF Others
  <2> QED
    BY <1>2, <2>1, <2>2, <2>3
<1> QED
  BY <1>1, <1>2 DEF CountInv, Counted

(* The steps that put no object anywhere else *)
LEMMA CountQuiet ==
  ASSUME Sound, NEW c \in Cores, Others(c), TypeOK',
         \A s \in Spans : Past(epoch[s], epoch'[s]),
         UNCHANGED << local, remote, live, fresh >>,
         visible' = visible \/ Fence(c),
         \/ pc[c] \notin Flying /\ pc'[c] \notin Flying
         \/ pc[c] \in Flying /\ pc'[c] \in Flying /\ sp'[c] = sp[c],
         \A s \in Spans : \/ owner'[s] = owner[s]
                          \/ owner'[s] = id[c] /\ id[c] # kTerminated /\ Over(owner[s]),
         \A d \in Cores \ {c} : id'[d] = id[d] /\ hot'[d] = hot[d],
         hot[c] = hot'[c] \/ hot[c] = NoSpan \/ Fence(c),
         \/ pc'[c] \notin Counted \cup {"free_count"}
         \/ /\ sp'[c] = sp[c] /\ ep'[c] = ep[c] /\ cnt'[c] = cnt[c]
            /\ \/ pc[c] \in Counted /\ pc'[c] \in Counted
               \/ pc'[c] = pc[c] /\ owner' = owner /\ id' = id
  PROVE  CountInv'
<1>0. CountInv /\ TypeOK /\ HotInv
  BY StructureParts
<1>1. ObjectsConserved'
  <2>1. ASSUME NEW s \in Spans PROVE InFlight(s)' = InFlight(s)
    BY InFlightSame
  <2> QED
    BY <1>0, <2>1 DEF CountInv, ObjectsConserved
<1>2. ASSUME NEW s \in Spans, \A d \in Cores : hot'[d] # s
      PROVE  visible'[s] <= local'[s]
  <2>0. local[s] \in Nat /\ visible[s] \in Nat
    BY <1>0, Amounts
  <2>1. CASE \A d \in Cores : hot[d] # s
    <3>1. visible[s] <= local[s]
      BY <1>0, <2>1 DEF CountInv
    <3>2. visible'[s] = visible[s] \/ visible'[s] = local[s]
      BY <1>0, FenceType
    <3> QED
      BY <2>0, <3>1, <3>2
  <2>2. CASE hot[c] = s
    <3>1. Fence(c) /\ owner[s] = id[c]
      BY <1>0, <1>2, <2>2, NullAssumption DEF HotInv
    <3>2. visible'[s] = local[s]
      BY <1>0, <3>1, FenceType
    <3> QED
      BY <2>0, <3>2
  <2> QED
    BY <1>2, <2>1, <2>2
<1>3. \A s \in Spans : local[s] <= local'[s] /\ remote[s] <= remote'[s]
  BY <1>0, Amounts
<1> QED
  BY <1>1, <1>2, <1>3, CountKept

LEMMA MallocCount ==
  ASSUME Sound, NEW c \in Cores, Malloc(c), broken' = "nothing"
  PROVE  CountInv'
<1>0. /\ TypeOK /\ CoreInv /\ IdInv /\ FreshInv /\ DeleteInv /\ CountInv
      /\ epoch \in [Spans -> Epochs] /\ hot \in [Cores -> Spans \cup {NoSpan}]
      /\ pc \in [Cores -> Labels] /\ pool \in SUBSET Spans /\ fresh \in SUBSET Spans
      /\ owner \in [Spans -> CoreIds]
  BY Types, StructureParts
<1>t. TypeOK' /\ Others(c) /\ \A s \in Spans : Past(epoch[s], epoch'[s])
  BY MallocType, OthersStep, EpochStep
<1>n. \A s \in Spans : /\ local[s] \in Nat /\ remote[s] \in Nat /\ live[s] \in Nat
                       /\ visible[s] \in Nat /\ InFlight(s) \in Nat /\ K \in Nat
  BY <1>0, Amounts
<1>1. CASE MallocFast(c) \/ MallocLast(c)
  <2>1. TakeObject(c) /\ pc[c] \notin Flying
    BY <1>1 DEF MallocFast, MallocLast, Flying
  <2>2. PICK s \in Spans : s = hot[c]
    BY <2>1, TakeObjectType
  <2>3. /\ UNCHANGED << epoch, owner, remote, pool, fresh, id, hot >>
        /\ pc'[c] = "idle" /\ s \notin fresh
        /\ local'[s] = local[s] - 1 /\ live'[s] = live[s] + 1
        /\ \A t \in Spans \ {s} : /\ local'[t] = local[t] /\ live'[t] = live[t]
                                  /\ visible'[t] = visible[t]
    BY <2>1, <2>2, TakeObjectType DEF coreVars
  <2>4. pc'[c] \notin Flying /\ pc'[c] \notin Counted \cup {"free_count"}
    BY <2>3 DEF Flying, Counted
  <2>5. ObjectsConserved'
    <3>1. ASSUME NEW t \in Spans PROVE InFlight(t)' = InFlight(t)
      BY <1>t, <2>1, <2>4, InFlightSame
    <3>2. ASSUME NEW t \in Spans, t \notin fresh'
          PROVE  local'[t] + remote'[t] + live'[t] + InFlight(t)' = K
      <4>1. local[t] + remote[t] + live[t] + InFlight(t) = K
        BY <1>0, <2>3, <3>2 DEF CountInv, ObjectsConserved
      <4>2. InFlight(t)' = InFlight(t) /\ remote'[t] = remote[t]
        BY <2>3, <3>1
      <4> QED
        BY <1>n, <2>3, <4>1, <4>2
    <3> QED
      BY <3>2 DEF ObjectsConserved
  <2>6. \A t \in Spans : (\A d \in Cores : hot'[d] # t) => visible'[t] <= local'[t]
    BY <1>0, <2>2, <2>3 DEF CountInv
  <2>7. \A t \in Spans : (\A d \in Cores : hot[d] # t) =>
          local[t] <= local'[t] /\ remote[t] <= remote'[t] /\ owner'[t] = owner[t]
    BY <1>n, <2>2, <2>3
  <2>8. \A d \in Cores \ {c} : id'[d] = id[d]
    BY <2>3
  <2> QED
    BY <1>t, <2>4, <2>5, <2>6, <2>7, <2>8, CountKept
<1>2. CASE MallocRefill(c) \/ GetMove(c)
  <2>1. pc[c] \in Hot /\ pc[c] \notin Flying
    BY <1>2 DEF MallocRefill, GetMove, Hot, Flying
  <2>2. PICK s \in Spans : s = hot[c] /\ s \notin fresh
    BY <2>1, AtHand
  <2>3. /\ UNCHANGED << epoch, owner, live, pool, fresh, id, hot >>
        /\ pc'[c] \in {"alloc", "alloc_last"}
        /\ remote' = [remote EXCEPT ![s] = 0]
        /\ \/ StoreLen(s, local[s] + remote[s])
           \/ remote[s] = 0 /\ UNCHANGED << local, visible >>
    BY <1>0, <1>2, <2>2 DEF MallocRefill, GetMove, Resume, Goto, coreVars
  <2>4. /\ remote'[s] = 0 /\ local'[s] = local[s] + remote[s]
        /\ \A t \in Spans \ {s} : /\ local'[t] = local[t] /\ remote'[t] = remote[t]
                                  /\ visible'[t] = visible[t]
    <3>1. remote \in [Spans -> 0 .. K]
      BY <1>0 DEF TypeOK
    <3>2. local[s] + remote[s] \in 0 .. K
      BY <2>2, ObjectSum
    <3>3. /\ local'[s] = local[s] + remote[s]
          /\ \A t \in Spans \ {s} : local'[t] = local[t] /\ visible'[t] = visible[t]
      BY <1>0, <1>n, <2>3, <3>2, StoreLenType
    <3> QED
      BY <2>3, <3>1, <3>3
  <2>5. pc'[c] \notin Flying /\ pc'[c] \notin Counted \cup {"free_count"}
    BY <2>3 DEF Flying, Counted
  <2>6. ObjectsConserved'
    <3>1. ASSUME NEW t \in Spans PROVE InFlight(t)' = InFlight(t)
      BY <1>t, <2>1, <2>5, InFlightSame
    <3>2. ASSUME NEW t \in Spans, t \notin fresh'
          PROVE  local'[t] + remote'[t] + live'[t] + InFlight(t)' = K
      <4>1. local[t] + remote[t] + live[t] + InFlight(t) = K
        BY <1>0, <2>3, <3>2 DEF CountInv, ObjectsConserved
      <4>2. InFlight(t)' = InFlight(t) /\ live'[t] = live[t]
        BY <2>3, <3>1
      <4> QED
        BY <1>n, <2>4, <4>1, <4>2
    <3> QED
      BY <3>2 DEF ObjectsConserved
  <2>7. \A t \in Spans : (\A d \in Cores : hot'[d] # t) => visible'[t] <= local'[t]
    BY <1>0, <2>2, <2>3, <2>4 DEF CountInv
  <2>8. \A t \in Spans : (\A d \in Cores : hot[d] # t) =>
          local[t] <= local'[t] /\ remote[t] <= remote'[t] /\ owner'[t] = owner[t]
    BY <1>n, <2>2, <2>3, <2>4
  <2>9. \A d \in Cores \ {c} : id'[d] = id[d]
    BY <2>3
  <2> QED
    BY <1>t, <2>5, <2>6, <2>7, <2>8, <2>9, CountKept
<1>3. CASE GetNew(c)
  <2>1. PICK s \in pool \cup fresh :
        /\ pool' = pool \ {s} /\ fresh' = fresh \ {s}
        /\ owner' = [owner EXCEPT ![s] = id[c]]
        /\ local' = [local EXCEPT ![s] = K]
        /\ visible' = [t \in Spans |->
                        IF t = s THEN K
                        ELSE IF owner[t] = id[c] THEN local[t] ELSE visible[t]]
        /\ remote' = [remote EXCEPT ![s] = 0]
        /\ hot' = [hot EXCEPT ![c] = s]
    BY <1>3 DEF GetNew
  <2>2. /\ UNCHANGED << live, id, sp >> /\ pc[c] = "get_new" /\ pc'[c] \in {"alloc", "alloc_last"}
    BY <1>0, <1>3 DEF GetNew, Resume, Goto
  <2>3. s \in Spans /\ s # NoSpan
    BY <1>0, <2>1, NullAssumption
  <2>4. live[s] = 0 /\ InFlight(s) = 0
    <3>1. live[s] = 0 /\ \A d \in Cores : sp[d] = s => pc[d] \notin Flying
      BY <1>0, <2>1, <2>3 DEF FreshInv, DeleteInv, CoreInv
    <3> QED
      BY <3>1, InFlightFacts
  <2>5. /\ local'[s] = K /\ remote'[s] = 0 /\ visible'[s] = K /\ hot'[c] = s
        /\ \A t \in Spans \ {s} :
             /\ local'[t] = local[t] /\ remote'[t] = remote[t] /\ owner'[t] = owner[t]
             /\ visible'[t] = local[t] \/ visible'[t] = visible[t]
        /\ \A d \in Cores \ {c} : hot'[d] = hot[d]
    <3>1. local \in [Spans -> 0 .. K] /\ remote \in [Spans -> 0 .. K]
      BY <1>0 DEF TypeOK
    <3> QED
      BY <1>0, <2>1, <2>3, <3>1
  <2>6. /\ pc'[c] \notin Flying /\ pc'[c] \notin Counted \cup {"free_count"} /\ pc[c] \notin Flying
        /\ hot[c] = NoSpan
    BY <1>0, <2>2 DEF Flying, Counted, CoreInv, Cold
  <2>7. ObjectsConserved'
    <3>1. ASSUME NEW t \in Spans PROVE InFlight(t)' = InFlight(t)
      BY <1>t, <2>6, InFlightSame
    <3>2. ASSUME NEW t \in Spans, t \notin fresh'
          PROVE  local'[t] + remote'[t] + live'[t] + InFlight(t)' = K
      <4>1. t # s => local[t] + remote[t] + live[t] + InFlight(t) = K
        BY <1>0, <2>1, <3>2 DEF CountInv, ObjectsConserved
      <4>2. InFlight(t)' = InFlight(t) /\ live'[t] = live[t]
        BY <2>2, <3>1
      <4> QED
        BY <1>n, <2>4, <2>5, <4>1, <4>2
    <3> QED
      BY <3>2 DEF ObjectsConserved
  <2>8. ASSUME NEW t \in Spans, \A d \in Cores : hot'[d] # t
        PROVE  visible'[t] <= local'[t]
    <3>1. t # s /\ \A d \in Cores : hot[d] # t
      BY <2>5, <2>6, <2>8, NullAssumption
    <3>2. visible[t] <= local[t]
      BY <1>0, <3>1 DEF CountInv
    <3> QED
      BY <1>n, <2>5, <3>1, <3>2
  <2>9. \A t \in Spans : t \notin fresh /\ t \notin pool =>
          local[t] <= local'[t] /\ remote[t] <= remote'[t] /\ owner'[t] = owner[t]
    BY <1>n, <2>1, <2>5
  <2>10. \A d \in Cores \ {c} : id'[d] = id[d]
    BY <2>2
  <2> QED
    BY <1>t, <2>6, <2>7, <2>8, <2>9, <2>10, CountKept
<1>4. CASE FloatStore(c) \/ GetRemove(c) \/ GetHot(c)
  <2>1. /\ UNCHANGED << owner, local, remote, live, fresh, id >> /\ Fence(c)
        /\ pc[c] \in {"float_store", "get_remove", "get_hot"}
        /\ pc'[c] \in {"drain", "get_remove", "get_new", "get_epoch", "get_move", pc[c]}
        /\ \A d \in Cores \ {c} : hot'[d] = hot[d]
    BY <1>0, <1>4 DEF FloatStore, GetRemove, GetHot, Goto
  <2>2. /\ pc'[c] \notin Flying /\ pc'[c] \notin Counted \cup {"free_count"} /\ pc[c] \notin Flying
    BY <2>1 DEF Flying, Counted
  <2>3. /\ \A s \in Spans : owner'[s] = owner[s]
        /\ \A d \in Cores \ {c} : id'[d] = id[d] /\ hot'[d] = hot[d]
    BY <2>1
  <2> QED
    BY <1>t, <2>1, <2>2, <2>3, CountQuiet
<1>5. CASE MallocNoSpan(c) \/ MallocSlow(c) \/ MallocNull(c) \/ FloatLoad(c) \/ GetEpoch(c)
  <2>1. /\ UNCHANGED << owner, local, remote, live, visible, fresh, id, hot >>
        /\ pc[c] \in {"idle", "alloc", "alloc_last", "float_load", "get_epoch"}
        /\ pc'[c] \in {"get_remove", "refill", "float_load", "idle", "float_store", "get_hot"}
    BY <1>0, <1>5 DEF MallocNoSpan, MallocSlow, MallocNull, FloatLoad, GetEpoch, Goto, Done, spanVars, coreVars
  <2>2. /\ pc'[c] \notin Flying /\ pc'[c] \notin Counted \cup {"free_count"} /\ pc[c] \notin Flying
    BY <2>1 DEF Flying, Counted
  <2>3. /\ \A s \in Spans : owner'[s] = owner[s]
        /\ \A d \in Cores \ {c} : id'[d] = id[d] /\ hot'[d] = hot[d]
        /\ hot[c] = hot'[c]
    BY <2>1
  <2> QED
    BY <1>t, <2>1, <2>2, <2>3, CountQuiet
<1> QED
  BY <1>1, <1>2, <1>3, <1>4, <1>5 DEF Malloc

(* The object leaves the program. *)
LEMMA FreeStartCount ==
  ASSUME Sound, NEW c \in Cores, NEW s \in Spans, FreeStart(c, s), Free(c)
  PROVE  CountInv'
<1>0. /\ TypeOK /\ CountInv /\ FreshInv /\ live \in [Spans -> 0 .. K]
      /\ pc \in [Cores -> Labels] /\ sp \in [Cores -> Spans \cup {NoSpan}]
  BY StructureParts DEF TypeOK
<1>t. TypeOK' /\ Others(c) /\ \A t \in Spans : Past(epoch[t], epoch'[t])
  BY FreeType, OthersStep, EpochStep
<1>n. \A t \in Spans : /\ local[t] \in Nat /\ remote[t] \in Nat /\ live[t] \in Nat
                       /\ visible[t] \in Nat /\ InFlight(t) \in Nat /\ K \in Nat
  BY <1>0, Amounts
<1>1. /\ UNCHANGED << owner, local, remote, visible, pool, fresh, id, hot >>
      /\ pc[c] = "idle" /\ pc'[c] = "free_owner" /\ sp'[c] = s /\ live[s] > 0
      /\ live' = [live EXCEPT ![s] = @ - 1]
  BY <1>0 DEF FreeStart, Goto, coreVars
<1>2. /\ pc[c] \notin Flying /\ pc'[c] \in Flying /\ pc'[c] \notin Counted \cup {"free_count"}
  BY <1>1 DEF Flying, Counted
<1>3. ObjectsConserved'
  <2> SUFFICES ASSUME NEW t \in Spans, t \notin fresh'
               PROVE  local'[t] + remote'[t] + live'[t] + InFlight(t)' = K
    BY DEF ObjectsConserved
  <2>1. local[t] + remote[t] + live[t] + InFlight(t) = K
    BY <1>0, <1>1 DEF CountInv, ObjectsConserved
  <2>2. InFlight(t)' = IF t = s THEN InFlight(t) + 1 ELSE InFlight(t)
    BY <1>t, <1>1, <1>2, InFlightIn
  <2>3. live'[t] = IF t = s THEN live[t] - 1 ELSE live[t]
    BY <1>0, <1>1
  <2>4. local'[t] = local[t] /\ remote'[t] = remote[t]
    BY <1>1
  <2> QED
    BY <1>n, <2>1, <2>2, <2>3, <2>4
<1>4. \A t \in Spans : (\A d \in Cores : hot'[d] # t) => visible'[t] <= local'[t]
  BY <1>0, <1>1 DEF CountInv
<1>5. /\ \A t \in Spans : /\ local[t] <= local'[t] /\ remote[t] <= remote'[t]
                          /\ owner'[t] = owner[t]
      /\ \A d \in Cores \ {c} : id'[d] = id[d]
  BY <1>n, <1>1
<1> QED
  BY <1>t, <1>2, <1>3, <1>4, <1>5, CountKept

(* The object is in a free list, and the free counts that list. *)
LEMMA FreePushCount ==
  ASSUME Sound, NEW c \in Cores, FreePush(c), Free(c)
  PROVE  CountInv'
<1>0. /\ TypeOK /\ CountInv /\ FreshInv /\ remote \in [Spans -> 0 .. K]
      /\ pc \in [Cores -> Labels] /\ cnt \in [Cores -> 0 .. 2 * K]
  BY StructureParts DEF TypeOK
<1>t. TypeOK' /\ Others(c) /\ \A t \in Spans : Past(epoch[t], epoch'[t])
  BY FreeType, OthersStep, EpochStep
<1>n. \A t \in Spans : /\ local[t] \in Nat /\ remote[t] \in Nat /\ live[t] \in Nat
                       /\ visible[t] \in Nat /\ InFlight(t) \in Nat /\ K \in Nat
  BY <1>0, Amounts
<1>1. /\ UNCHANGED << owner, live, pool, fresh, id, hot, sp >>
      /\ pc[c] = "free_push" /\ pc'[c] = "free_count"
  BY <1>0 DEF FreePush, Goto, coreVars
<1>2. /\ pc[c] \in Flying /\ pc'[c] \notin Flying /\ pc'[c] \notin Counted /\ pc[c] \in Busy
  BY <1>1 DEF Flying, Counted, Busy, Freeing
<1>3. PICK s \in Spans : s = sp[c] /\ s \notin fresh
  BY <1>2, AtHand
<1>4. local[s] + 1 \in 0 .. K /\ remote[s] + 1 \in 0 .. K
  <2>1. InFlight(s) >= 1 /\ InFlight(s) \in Nat
    BY <1>2, <1>3, FlyingCounts
  <2> QED
    BY <1>3, <2>1, ObjectSum
<1>5. /\ \A t \in Spans \ {s} : /\ local'[t] = local[t] /\ remote'[t] = remote[t]
                                /\ visible'[t] = visible[t] \/ visible'[t] = local[t]
      /\ \/ /\ owner[s] = id[c] /\ local'[s] = local[s] + 1 /\ remote'[s] = remote[s]
            /\ visible'[s] \in {local[s], local[s] + 1} /\ cnt'[c] = local[s] + 1
         \/ /\ owner[s] # id[c] /\ local'[s] = local[s] /\ remote'[s] = remote[s] + 1
            /\ visible'[s] = visible[s] \/ visible'[s] = local[s]
            /\ cnt'[c] = remote[s] + 1
  <2>1. CASE owner[s] = id[c]
    <3>1. StoreLen(s, local[s] + 1) /\ remote' = remote /\ cnt'[c] = local[s] + 1
      BY <1>0, <1>3, <2>1 DEF FreePush
    <3> QED
      BY <1>0, <1>4, <2>1, <3>1, StoreLenType
  <2>2. CASE owner[s] # id[c]
    <3>1. /\ remote' = [remote EXCEPT ![s] = remote[s] + 1] /\ cnt'[c] = remote[s] + 1
          /\ Fence(c) /\ local' = local
      BY <1>0, <1>3, <2>2 DEF FreePush
    <3> QED
      BY <1>0, <2>2, <3>1, FenceType
  <2> QED
    BY <2>1, <2>2
<1>6. ObjectsConserved'
  <2> SUFFICES ASSUME NEW t \in Spans, t \notin fresh'
               PROVE  local'[t] + remote'[t] + live'[t] + InFlight(t)' = K
    BY DEF ObjectsConserved
  <2>1. local[t] + remote[t] + live[t] + InFlight(t) = K
    BY <1>0, <1>1 DEF CountInv, ObjectsConserved
  <2>2. InFlight(t) = (IF t = s THEN InFlight(t)' + 1 ELSE InFlight(t)')
    BY <1>t, <1>2, <1>3, InFlightOut
  <2>n. InFlight(t)' \in Nat
    <3>1. {d \in Cores : sp'[d] = t /\ pc'[d] \in {"free_owner", "free_push"}} \in SUBSET Cores
      OBVIOUS
    <3> QED
      BY <3>1, CoresAssumption, FS_Subset, FS_CardinalityType DEF InFlight
  <2>3. live'[t] = live[t]
    BY <1>1
  <2>4. CASE t = s
    BY <1>n, <1>5, <2>1, <2>2, <2>n, <2>3, <2>4
  <2>5. CASE t # s
    BY <1>n, <1>5, <2>1, <2>2, <2>n, <2>3, <2>5
  <2> QED
    BY <2>4, <2>5
<1>7. ASSUME NEW t \in Spans, \A d \in Cores : hot'[d] # t
      PROVE  visible'[t] <= local'[t]
  <2>1. visible[t] <= local[t]
    BY <1>0, <1>1, <1>7 DEF CountInv
  <2> QED
    BY <1>n, <1>5, <2>1
<1>8. /\ \A t \in Spans : /\ local[t] <= local'[t] /\ remote[t] <= remote'[t]
                          /\ owner'[t] = owner[t]
      /\ \A d \in Cores \ {c} : id'[d] = id[d]
  BY <1>n, <1>1, <1>5
<1>9. cnt'[c] <= K /\ cnt'[c] <= IF owner'[s] = id'[c] THEN local'[s] ELSE remote'[s]
  BY <1>n, <1>1, <1>4, <1>5
<1>10. sp'[c] = s
  BY <1>1, <1>3
<1> QED
  BY <1>t, <1>2, <1>6, <1>7, <1>8, <1>9, <1>10, CountKept

(* The free adds the other list, which it reads later. *)
LEMMA FreeCountCount ==
  ASSUME Sound, NEW c \in Cores, FreeCount(c), Free(c)
  PROVE  CountInv'
<1>0. /\ TypeOK /\ CountInv /\ pc \in [Cores -> Labels] /\ cnt \in [Cores -> 0 .. 2 * K]
  BY StructureParts DEF TypeOK
<1>t. TypeOK' /\ Others(c) /\ \A t \in Spans : Past(epoch[t], epoch'[t])
  BY FreeType, OthersStep, EpochStep
<1>n. \A t \in Spans : /\ local[t] \in Nat /\ remote[t] \in Nat /\ live[t] \in Nat
                       /\ visible[t] \in Nat /\ InFlight(t) \in Nat /\ K \in Nat
  BY <1>0, Amounts
<1>1. /\ UNCHANGED << epoch, owner, local, remote, visible, live, pool, fresh, id, hot, sp, ep >>
      /\ pc[c] = "free_count" /\ pc'[c] = "free_alive"
  BY <1>0 DEF FreeCount, Goto, spanVars, coreVars
<1>2. /\ pc[c] \notin Flying /\ pc'[c] \notin Flying /\ pc[c] \in Freeing
  BY <1>1 DEF Flying, Freeing
<1>3. PICK s \in Spans : s = sp[c] /\ s \notin fresh
  BY <1>2, AtHand, Labelled
<1>4. cnt'[c] = cnt[c] + (IF owner[s] = id[c] THEN remote[s] ELSE visible[s])
  BY <1>0, <1>3 DEF FreeCount
<1>5. ObjectsConserved'
  <2>1. ASSUME NEW t \in Spans PROVE InFlight(t)' = InFlight(t)
    BY <1>t, <1>2, InFlightSame
  <2> QED
    BY <1>0, <1>1, <2>1 DEF CountInv, ObjectsConserved
<1>6. \A t \in Spans : (\A d \in Cores : hot'[d] # t) => visible'[t] <= local'[t]
  BY <1>0, <1>1 DEF CountInv
<1>7. /\ \A t \in Spans : /\ local[t] <= local'[t] /\ remote[t] <= remote'[t]
                          /\ owner'[t] = owner[t]
      /\ \A d \in Cores \ {c} : id'[d] = id[d]
  BY <1>n, <1>1
<1>8. Still(c)' => cnt'[c] <= local'[s] + remote'[s]
  <2> SUFFICES ASSUME Still(c)' PROVE cnt'[c] <= local'[s] + remote'[s]
    OBVIOUS
  <2>0. sp'[c] = sp[c] /\ ep'[c] = ep[c]
    BY <1>1
  <2>1. Still(c)
    BY <1>t, <1>2, <2>0, StillKept
  <2>2. cnt[c] <= IF owner[s] = id[c] THEN local[s] ELSE remote[s]
    BY <1>0, <1>1, <1>3, <2>1 DEF CountInv
  <2>3. visible[s] <= local[s]
    BY <1>0, <1>3, <2>1, StillFloats DEF CountInv
  <2>4. cnt[c] \in Nat /\ local'[s] = local[s] /\ remote'[s] = remote[s]
    BY <1>0, <1>1
  <2> QED
    BY <1>n, <1>4, <2>2, <2>3, <2>4
<1>9. sp'[c] = s /\ pc'[c] # "free_count"
  BY <1>1, <1>3
<1> QED
  BY <1>t, <1>5, <1>6, <1>7, <1>8, <1>9, CountKept

LEMMA FreeCounts ==
  ASSUME Sound, NEW c \in Cores, Free(c), broken' = "nothing"
  PROVE  CountInv'
<1>0. /\ TypeOK /\ CoreInv /\ IdInv
      /\ pc \in [Cores -> Labels] /\ owner \in [Spans -> CoreIds]
      /\ sp \in [Cores -> Spans \cup {NoSpan}]
  BY Types, StructureParts
<1>t. TypeOK' /\ Others(c) /\ \A s \in Spans : Past(epoch[s], epoch'[s])
  BY FreeType, OthersStep, EpochStep
<1>1. CASE \E s \in Spans : FreeStart(c, s)
  BY <1>1, FreeStartCount
<1>2. CASE FreePush(c)
  BY <1>2, FreePushCount
<1>3. CASE FreeCount(c)
  BY <1>3, FreeCountCount
<1>4. CASE FreeOwner(c) \/ FreeNothing(c) \/ FreeFull(c) \/ FreeReuse(c)
  <2>1. /\ UNCHANGED << owner, local, remote, live, fresh, id, hot >>
        /\ visible' = visible \/ Fence(c)
        /\ \/ pc[c] = "free_owner" /\ pc'[c] = "free_push" /\ sp'[c] = sp[c]
           \/ /\ pc[c] = "free_mark"
              /\ pc'[c] \in {"idle", "free_unlink", "free_delete", "free_link"}
    BY <1>0, <1>4 DEF FreeOwner, FreeNothing, FreeFull, FreeReuse, Goto, Done, spanVars, coreVars
  <2>2. /\ pc'[c] \notin Counted \cup {"free_count"}
        /\ \/ pc[c] \notin Flying /\ pc'[c] \notin Flying
           \/ pc[c] \in Flying /\ pc'[c] \in Flying /\ sp'[c] = sp[c]
    BY <2>1 DEF Flying, Counted
  <2>3. /\ \A s \in Spans : owner'[s] = owner[s]
        /\ \A d \in Cores \ {c} : id'[d] = id[d] /\ hot'[d] = hot[d]
        /\ hot[c] = hot'[c]
    BY <2>1
  <2> QED
    BY <1>t, <2>1, <2>2, <2>3, CountQuiet
<1>5. CASE FreeUnlink(c) \/ FreeDelete(c) \/ FreeLink(c)
  <2>1. /\ UNCHANGED << owner, local, remote, live, fresh, id, hot >>
        /\ visible' = visible \/ Fence(c)
        /\ pc[c] \in {"free_unlink", "free_delete", "free_link"}
        /\ pc'[c] \in {"idle", "free_delete", pc[c]}
    BY <1>0, <1>5 DEF FreeUnlink, FreeDelete, FreeLink, Goto, Done, coreVars, opVars
  <2>2. /\ pc'[c] \notin Counted \cup {"free_count"} /\ pc[c] \notin Flying /\ pc'[c] \notin Flying
    BY <2>1 DEF Flying, Counted
  <2>3. /\ \A s \in Spans : owner'[s] = owner[s]
        /\ \A d \in Cores \ {c} : id'[d] = id[d] /\ hot'[d] = hot[d]
        /\ hot[c] = hot'[c]
    BY <2>1
  <2> QED
    BY <1>t, <2>1, <2>2, <2>3, CountQuiet
<1>6. CASE FreeAlive(c) \/ FreeRevive(c) \/ FreeUnmark(c)
  <2>1. /\ UNCHANGED << local, remote, live, fresh, id, hot, sp, ep, cnt >>
        /\ visible' = visible \/ Fence(c)
        /\ pc[c] \in {"free_alive", "free_revive", "free_unmark"}
        /\ pc'[c] \in {"free_mark", "free_revive", "free_unmark"}
        /\ \/ owner' = owner
           \/ /\ pc[c] = "free_revive" /\ owner[sp[c]] = ow[c]
              /\ owner' = [owner EXCEPT ![sp[c]] = id[c]]
    BY <1>0, <1>6 DEF FreeAlive, FreeRevive, FreeUnmark, Goto, spanVars, coreVars
  <2>2. /\ pc'[c] \in Counted /\ pc[c] \in Counted /\ pc[c] \notin Flying /\ pc'[c] \notin Flying
        /\ pc[c] # "dead"
    BY <2>1 DEF Flying, Counted
  <2>3. \A s \in Spans : \/ owner'[s] = owner[s]
                         \/ owner'[s] = id[c] /\ id[c] # kTerminated /\ Over(owner[s])
    BY <1>0, <2>1, <2>2 DEF CoreInv, IdInv
  <2>4. /\ \A d \in Cores \ {c} : id'[d] = id[d] /\ hot'[d] = hot[d]
        /\ hot[c] = hot'[c] /\ sp'[c] = sp[c] /\ ep'[c] = ep[c] /\ cnt'[c] = cnt[c]
    BY <2>1
  <2> QED
    BY <1>t, <2>1, <2>2, <2>3, <2>4, CountQuiet
<1> QED
  BY <1>1, <1>2, <1>3, <1>4, <1>5, <1>6 DEF Free

LEMMA ThreadCounts ==
  ASSUME Sound, NEW c \in Cores, Thread(c) \/ Drain(c)
  PROVE  CountInv'
<1>0. /\ TypeOK /\ pc \in [Cores -> Labels] /\ id \in [Cores -> CoreIds]
  BY Types
<1>t. TypeOK' /\ Others(c) /\ \A s \in Spans : Past(epoch[s], epoch'[s])
  BY ThreadType, OthersStep, EpochStep
<1>1. CASE Thread(c)
  <2>1. /\ UNCHANGED << owner, local, remote, live, fresh, hot >>
        /\ visible' = visible \/ Fence(c)
        /\ pc[c] \in {"dead", "idle", "drain", "terminate"}
        /\ pc'[c] \in {"dead", "idle", "float_load", "drain", "terminate"}
        /\ \A d \in Cores \ {c} : id'[d] = id[d]
    BY <1>0, <1>1
       DEF Thread, GetMeALAB, DestroyClose, DestroyRemove, DestroyEnd, InitCore, Goto, spanVars
  <2>2. /\ pc'[c] \notin Counted \cup {"free_count"} /\ pc[c] \notin Flying /\ pc'[c] \notin Flying
    BY <2>1 DEF Flying, Counted
  <2>3. /\ \A s \in Spans : owner'[s] = owner[s]
        /\ \A d \in Cores \ {c} : id'[d] = id[d] /\ hot'[d] = hot[d]
        /\ hot[c] = hot'[c]
    BY <2>1
  <2> QED
    BY <1>t, <2>1, <2>2, <2>3, CountQuiet
<1>2. CASE Drain(c)
  <2>1. /\ UNCHANGED << owner, local, remote, live, fresh, hot, id, pc, sp, ep, cnt >> /\ Fence(c)
    BY <1>2 DEF Drain, coreVars, opVars
  <2>3. /\ \A s \in Spans : owner'[s] = owner[s]
        /\ \A d \in Cores \ {c} : id'[d] = id[d] /\ hot'[d] = hot[d]
        /\ hot[c] = hot'[c] /\ sp'[c] = sp[c] /\ ep'[c] = ep[c] /\ cnt'[c] = cnt[c]
        /\ pc'[c] = pc[c]
    BY <2>1
  <2> QED
    BY <1>t, <2>1, <2>3, CountQuiet
<1> QED
  BY <1>1, <1>2

-----------------------------------------------------------------------------
(* The invariant *)

LEMMA SoundIsSafe ==
  ASSUME Sound
  PROVE  Safe
<1>0. /\ TypeOK /\ IdInv /\ CoreInv /\ HotInv /\ MarkInv /\ DeleteInv
      /\ LinkInv /\ OnceInv /\ CountInv
  BY StructureParts
<1>1. HotIsExclusive
  <2> SUFFICES ASSUME NEW c \in Cores, hot[c] # NoSpan
               PROVE  /\ owner[hot[c]] = id[c] /\ hot[c] \notin pool /\ ~Linked(hot[c])
                      /\ \A d \in Cores \ {c} : hot[d] # hot[c]
    BY DEF HotIsExclusive
  <2>1. /\ owner[hot[c]] = id[c] /\ hot[c] \notin pool /\ ~Linked(hot[c])
    BY <1>0 DEF HotInv, Linked, InList
  <2>2. id[c] # kTerminated
    BY <1>0 DEF CoreInv, Cold, IdInv
  <2>3. \A d \in Cores : hot[d] = hot[c] => id[d] = id[c]
    BY <1>0, <2>1 DEF HotInv
  <2> QED
    BY <1>0, <2>1, <2>2, <2>3, IdsApart
<1>2. DeletedOnce
  <2>1. pool \in SUBSET Spans
    BY Types
  <2> QED
    BY <1>0, <2>1 DEF DeletedOnce, DeleteInv, IsFull, Linked, InList
<1>3. FloatHasNoRace
  BY <1>0 DEF FloatHasNoRace, CoreInv, HotInv, Hot
<1>4. ListedByOwner
  <2> SUFFICES ASSUME NEW c \in Cores, NEW i \in DOMAIN rspans[c]
               PROVE  /\ owner[rspans[c][i]] = id[c]
                      /\ \A j \in DOMAIN rspans[c] : rspans[c][i] = rspans[c][j] => i = j
    BY DEF ListedByOwner
  <2>1. rspans[c] \in Seq(Spans)
    BY Types
  <2>2. rspans[c][i] \in Spans /\ InList(c, rspans[c][i])
    BY <2>1 DEF InList, Contains
  <2> QED
    BY <1>0, <2>2 DEF LinkInv, OnceInv, IsInjective
<1>5. FullIsDeleted
  <2>1. (\A c \in Cores : pc[c] \in {"idle", "dead"}) => \A c \in Cores : \A s : ~Deleting(c, s)
    BY DEF Deleting
  <2> QED
    BY <1>0, <2>1 DEF FullIsDeleted, MarkInv, IsFull
<1> QED
  BY <1>0, <1>1, <1>2, <1>3, <1>4, <1>5 DEF Safe, CountInv

(* An assertion of the code fails: the behaviour ends there, and it has    *)
(* not yet done any harm.                                                  *)
LEMMA BreakKeeps ==
  ASSUME Sound, NEW c \in Cores, TypeOK', Others(c),
         UNCHANGED << owner, local, remote, live, pool, fresh, id, hot, rspans, pc >>,
         \A s \in Spans : epoch'[s] = epoch[s] \/ epoch[s].mark \in {"none", "reuse"},
         pc[c] \in {"get_hot", "free_delete", "free_link"},
         pc[c] = "get_hot" \/ sp' = sp
  PROVE  Safe'
<1>0. Safe
  BY SoundIsSafe
<1>1. \A s : Linked(s)' <=> Linked(s)
  BY DEF Linked
<1>2. \A d \in Cores : \A s : Deleting(d, s)' <=> Deleting(d, s)
  BY DEF Deleting, Others
<1>3. ObjectsConserved'
  <2>0. pc[c] \notin Flying /\ pc'[c] \notin Flying
    BY DEF Flying
  <2>1. ASSUME NEW s \in Spans PROVE InFlight(s)' = InFlight(s)
    BY <2>0, InFlightSame
  <2> QED
    BY <1>0, <2>1 DEF Safe, ObjectsConserved
<1>4. HotIsExclusive'
  BY <1>0, <1>1 DEF Safe, HotIsExclusive
<1>5. DeletedOnce'
  <2>1. \A s \in pool : s \in Spans /\ epoch'[s] = epoch[s]
    BY Floating, Types
  <2> QED
    BY <1>0, <1>1, <1>2, <2>1 DEF Safe, DeletedOnce
<1>6. FloatHasNoRace'
  <2>1. ASSUME NEW d \in Cores, pc[d] = "float_store"
        PROVE  epoch'[hot[d]] = epoch[hot[d]] /\ ep'[d] = ep[d]
    <3>1. hot[d] \in Spans
      BY <2>1, AtHand DEF Hot
    <3>2. epoch[hot[d]].mark \notin {"none", "reuse"}
      BY <3>1, Floating
    <3>3. d # c
      BY <2>1
    <3> QED
      BY <3>1, <3>2, <3>3 DEF Others
  <2> QED
    BY <1>0, <2>1 DEF Safe, FloatHasNoRace
<1>7. ListedByOwner'
  BY <1>0 DEF Safe, ListedByOwner
<1>8. FullIsDeleted'
  BY DEF FullIsDeleted
<1> QED
  BY <1>3, <1>4, <1>5, <1>6, <1>7, <1>8 DEF Safe

LEMMA BreakStep ==
  ASSUME Sound, broken = "nothing", NEW c \in Cores,
         Malloc(c) \/ Free(c) \/ Thread(c) \/ Drain(c), broken' # "nothing"
  PROVE  Safe'
<1>0. /\ TypeOK /\ epoch \in [Spans -> Epochs] /\ ep \in [Cores -> Epochs]
  BY Types
<1>t. TypeOK' /\ Others(c)
  BY MallocType, FreeType, ThreadType, OthersStep
<1>1. GetHot(c) \/ FreeDelete(c) \/ FreeLink(c)
  <2>1. CASE Malloc(c)
    BY <2>1
       DEF Malloc, MallocNoSpan, MallocFast, MallocLast, MallocSlow, MallocRefill, MallocNull,
           TakeObject, FloatLoad, FloatStore, GetRemove, GetEpoch, GetMove, GetNew
  <2>2. CASE Free(c)
    BY <2>2
       DEF Free, FreeStart, FreeOwner, FreePush, FreeCount, FreeAlive, FreeRevive, FreeUnmark,
           FreeNothing, FreeFull, FreeUnlink, FreeReuse
  <2>3. CASE Thread(c) \/ Drain(c)
    BY <2>3 DEF Thread, Drain, GetMeALAB, DestroyClose, DestroyRemove, DestroyEnd
  <2> QED
    BY <2>1, <2>2, <2>3
<1>2. CASE GetHot(c)
  <2>1. /\ UNCHANGED << owner, local, remote, live, pool, fresh, id, hot, rspans, pc >>
        /\ pc[c] = "get_hot" /\ Exchange(sp[c], OnlyReuse(ep[c]), Marked(OnlyReuse(ep[c]), "hot"))
    BY <1>2 DEF GetHot
  <2>2. OnlyReuse(ep[c]).mark \in {"none", "reuse"}
    BY <1>0, OnlyReuseType
  <2>3. \A s \in Spans : epoch'[s] = epoch[s] \/ epoch[s].mark \in {"none", "reuse"}
    BY <1>0, <2>1, <2>2 DEF Exchange
  <2> QED
    BY <1>t, <2>1, <2>3, BreakKeeps
<1>3. CASE FreeDelete(c) \/ FreeLink(c)
  <2>1. /\ UNCHANGED << epoch, owner, local, remote, live, pool, fresh, id, hot, rspans, pc, sp >>
        /\ pc[c] \in {"free_delete", "free_link"}
    BY <1>3 DEF FreeDelete, FreeLink, coreVars, opVars
  <2>2. pc[c] \in {"get_hot", "free_delete", "free_link"}
        /\ \A s \in Spans : epoch'[s] = epoch[s]
    BY <2>1
  <2> QED
    BY <1>t, <2>1, <2>2, BreakKeeps
<1> QED
  BY <1>1, <1>2, <1>3

LEMMA InitSound ==
  ASSUME Init
  PROVE  Sound
<1>1. TypeOK
  <2>1. NoEpoch \in Epochs /\ kTerminated \in CoreIds
    BY BoundsAssumption, EpochType, CoreIdFacts DEF NoEpoch, Marks
  <2>2. 0 \in 0 .. K /\ 0 \in 0 .. 2 * K /\ 0 \in 0 .. MaxThreads
    BY BoundsAssumption, ObjectsAssumption
  <2>3. "dead" \in Labels /\ << >> \in Seq(Spans)
    BY DEF Labels
  <2> QED
    BY <2>1, <2>2, <2>3 DEF Init, TypeOK
<1>2. /\ \A c \in Cores : /\ pc[c] = "dead" /\ sp[c] = NoSpan /\ hot[c] = NoSpan
                          /\ id[c] = kTerminated /\ ow[c] = kTerminated
                          /\ opened[c] = kTerminated /\ rspans[c] = << >>
      /\ \A s \in Spans : /\ epoch[s] = NoEpoch /\ owner[s] = kTerminated /\ live[s] = 0
                          /\ visible[s] = 0 /\ local[s] = 0
      /\ pool = {} /\ fresh = Spans /\ threads = 0
  BY DEF Init
<1>3. \A c \in Cores : \A s : ~Deleting(c, s) /\ ~InList(c, s) /\ ~Carries(c, s) /\ ~Links(c, s)
  BY <1>2 DEF Deleting, InList, Carries, Links, Popping, Contains
<1>4. NoEpoch.mark = "none" /\ kTerminated.tag = 0
  BY CoreIdFacts DEF NoEpoch, Epoch
<1>5. IdInv
  BY <1>2, <1>4 DEF IdInv
<1>6. CoreInv
  BY <1>2, NullAssumption DEF CoreInv, Busy, Freeing, Informed, Popping, Hot, Cold
<1>7. FreshInv /\ HotInv /\ MarkInv /\ DeleteInv /\ LinkInv
  BY <1>2, <1>3, <1>4 DEF FreshInv, HotInv, MarkInv, DeleteInv, LinkInv
<1>8. EpochInv
  BY <1>2 DEF EpochInv, EpochOf, Current, Freeing
<1>9. OnceInv
  BY <1>2 DEF OnceInv, IsInjective
<1>10. CountInv
  BY <1>2 DEF CountInv, ObjectsConserved, Still, Freeing
<1> QED
  BY <1>1, <1>5, <1>6, <1>7, <1>8, <1>9, <1>10 DEF Sound, Structure

(* Nothing happens at all. *)
LEMMA InvariantSame ==
  ASSUME IInv, UNCHANGED vars
  PROVE  IInv'
<1>1. /\ UNCHANGED << epoch, owner, local, visible, remote, live, pool, fresh >>
      /\ UNCHANGED << id, hot, rspans, opened, threads, pc, op, sp, ep, ow, cnt, broken >>
  BY DEF vars, spanVars, coreVars, opVars
<1>2. /\ \A d, t : Deleting(d, t)' <=> Deleting(d, t)
      /\ \A t : Linked(t)' <=> Linked(t)
      /\ \A t : InFlight(t)' = InFlight(t)
      /\ \A d : Still(d)' <=> Still(d)
  BY <1>1 DEF Deleting, Linked, InFlight, Still
<1>3. TypeOK => TypeOK'
  BY <1>1 DEF TypeOK
<1>4. ObjectsConserved => ObjectsConserved'
  BY <1>1, <1>2 DEF ObjectsConserved
<1>5. CountInv => CountInv'
  BY <1>1, <1>2, <1>4 DEF CountInv
<1>6. Structure => Structure'
  BY <1>1, StructureSame
<1>7. Safe => Safe'
  BY <1>1, <1>2, <1>3, <1>4
     DEF Safe, HotIsExclusive, DeletedOnce, FloatHasNoRace, ListedByOwner, FullIsDeleted
<1> QED
  BY <1>1, <1>3, <1>5, <1>6, <1>7 DEF IInv, Sound


LEMMA SoundIsSafeNext == Sound' => Safe'
<1>1. Sound => Safe
  BY SoundIsSafe
<1> QED
  BY <1>1, PTL

LEMMA InvariantStep ==
  ASSUME IInv, Next
  PROVE  IInv'
<1>1. PICK c \in Cores : Malloc(c) \/ Free(c) \/ Thread(c) \/ Drain(c)
  BY DEF Next
<1>2. Sound /\ broken = "nothing"
  BY DEF IInv, Next
<1>3. CASE broken' = "nothing"
  <2>1. TypeOK'
    BY <1>1, <1>2, MallocType, FreeType, ThreadType
  <2>2. Structure'
    BY <1>1, <1>2, <1>3, StructureStep
  <2>3. CountInv'
    BY <1>1, <1>2, <1>3, MallocCount, FreeCounts, ThreadCounts
  <2>4. Sound'
    BY <2>1, <2>2, <2>3 DEF Sound
  <2> QED
    BY <2>4, SoundIsSafeNext DEF IInv
<1>4. CASE broken' # "nothing"
  <2>1. Safe'
    BY <1>1, <1>2, <1>4, BreakStep
  <2> QED
    BY <1>4, <2>1 DEF IInv
<1> QED
  BY <1>3, <1>4

(* What the epoch has gone on to ranks higher. *)
LEMMA PastRanks ==
  ASSUME NEW e \in Epochs, NEW f \in Epochs, Past(e, f), e # f
  PROVE  EpochRank(f) > EpochRank(e)
<1>1. /\ e.value \in Nat /\ f.value \in Nat
  BY EpochFields
<1>2. CASE e.value < f.value
  BY <1>1, <1>2 DEF EpochRank
<1>3. CASE e.value = f.value /\ f.mark = "none"
  <2>1. e.mark # "none"
    BY <1>3, EpochEqual
  <2> QED
    BY <1>1, <1>3, <2>1 DEF EpochRank
<1> QED
  BY <1>2, <1>3 DEF Past

LEMMA RankStep ==
  ASSUME IInv, Next, NEW s \in Spans, epoch'[s] # epoch[s], IInv'
  PROVE  EpochRank(epoch'[s]) > EpochRank(epoch[s])
<1>1. PICK c \in Cores : Malloc(c) \/ Free(c) \/ Thread(c) \/ Drain(c)
  BY DEF Next
<1>2. Sound
  BY DEF IInv, Next
<1>3. epoch[s] \in Epochs /\ epoch'[s] \in Epochs
  BY DEF IInv, Safe, TypeOK
<1>4. Past(epoch[s], epoch'[s])
  BY <1>1, <1>2, EpochStep
<1> QED
  BY <1>3, <1>4, PastRanks

-----------------------------------------------------------------------------
(* The theorems *)

(* Whatever mallocs, frees, starting and ending threads interleave, the     *)
(* invariant holds: all of it while no assertion of core.h and span.h has   *)
(* failed, and the safety of spans and objects even then.                   *)
THEOREM SpanInvariant == Spec => []IInv
<1>1. Init => IInv
  BY InitSound, SoundIsSafe DEF IInv
<1>2. IInv /\ [Next]_vars => IInv'
  BY InvariantStep, InvariantSame
<1> QED
  BY <1>1, <1>2, PTL DEF Spec

(* The fields of spans and cores keep their types; in particular neither    *)
(* free list of a span ever counts below 0 or above its capacity            *)
(* (span.h:276, 281), whichever frees are delayed between push and count.   *)
THEOREM SpanTypes == Spec => []TypeOK
<1>1. IInv => TypeOK
  BY DEF IInv, Safe
<1> QED
  BY <1>1, SpanInvariant, PTL

(* core.h:150, 180: no object of a span is lost and none exists             *)
(* twice, although frees of any thread run beside the owner's mallocs and   *)
(* the span may be deleted and built anew in between.                       *)
THEOREM SpanObjects == Spec => []ObjectsConserved
<1>1. IInv => ObjectsConserved
  BY DEF IInv, Safe
<1> QED
  BY <1>1, SpanInvariant, PTL

(* core.h:150: the span a core allocates from belongs to that core alone.   *)
THEOREM SpanHot == Spec => []HotIsExclusive
<1>1. IInv => HotIsExclusive
  BY DEF IInv, Safe
<1> QED
  BY <1>1, SpanInvariant, PTL

(* core.h:194, span.h:225: of all the frees that see a span as full, one    *)
(* deletes it, and a deleted span is out of reach of the lists.             *)
THEOREM SpanDeletedOnce == Spec => []DeletedOnce
<1>1. IInv => DeletedOnce
  BY DEF IInv, Safe
<1> QED
  BY <1>1, SpanInvariant, PTL

(* span.h:244: the plain store of NewMarkFloating overwrites no mark.       *)
THEOREM SpanFloat == Spec => []FloatHasNoRace
<1>1. IInv => FloatHasNoRace
  BY DEF IInv, Safe
<1> QED
  BY <1>1, SpanInvariant, PTL

(* core.h:196, 211: a span is linked once, and by the core that owns it.    *)
THEOREM SpanListed == Spec => []ListedByOwner
<1>1. IInv => ListedByOwner
  BY DEF IInv, Safe
<1> QED
  BY <1>1, SpanInvariant, PTL

(* core.h:194: no full span is forgotten once every operation has returned. *)
THEOREM SpanDeleted == Spec => []FullIsDeleted
<1>1. IInv => FullIsDeleted
  BY DEF IInv, Safe
<1> QED
  BY <1>1, SpanInvariant, PTL

(* span.h:221, 229, 237: no compare-and-swap of a free that was delayed can *)
(* succeed on an epoch that the span has left: epochs never come back.      *)
THEOREM SpanEpochs == Spec => EpochAdvances
<1>1. ASSUME IInv, IInv', [Next]_vars
      PROVE  [\A s \in Spans : epoch'[s] # epoch[s]
                 => EpochRank(epoch'[s]) > EpochRank(epoch[s])]_vars
  BY <1>1, RankStep
<1> QED
  BY <1>1, SpanInvariant, PTL DEF Spec, EpochAdvances

=============================================================================
