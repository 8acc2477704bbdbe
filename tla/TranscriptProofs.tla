-------------------------- MODULE TranscriptProofs --------------------------
(***************************************************************************)
(* Theorems about Transcript for every set of chunks and titles, wherever  *)
(* the speech in the chunks is, and any number of renames, rebuilds,       *)
(* failing steps and crashes.                                              *)
(***************************************************************************)
EXTENDS Transcript, FiniteSetTheorems, TLAPS

USE BudgetAssumption

Running(t) == task[t].at \notin {"idle", "after"}
Lone(t)    == Running(t) /\ task[t].alone

(* TypeOK in three parts. *)
RowTypes ==
  /\ title \in Titles /\ event \in [Chunks -> Moments \cup {None}]
  /\ audio \subseteq Chunks /\ retain \in BOOLEAN
  /\ current \in Chunks \cup {None} /\ spent \in [Kinds -> Nat]

FileTypes ==
  /\ tmp \in [Files -> Inodes \cup {None}] /\ dest \in [Files -> Inodes \cup {None}]
  /\ content \in [Inodes -> Texts \cup {None, Torn}]

TaskTypes ==
  /\ task \in [Tasks -> Regenerations]
  /\ \A t \in Tasks : task[t].at = "write" <=> task[t].fd # None

(* What is written has been read, and the Markdown comes first. *)
ReadFirst ==
  \A t \in Tasks :
    /\ task[t].at \in {"restamp", "events"} => task[t].file = "md"
    /\ \/ task[t].at \in {"create", "write"}
       \/ task[t].at = "publish" /\ task[t].file = "md"
       => task[t].times \in Stamps

(* No two names stand for one file. *)
Separate ==
  /\ \A f, g \in Files : tmp[f] = dest[g] => tmp[f] = None
  /\ \A f, g \in Files : f # g /\ tmp[f] = tmp[g] => tmp[f] = None
  /\ \A f, g \in Files : f # g /\ dest[f] = dest[g] => dest[f] = None

(* A regeneration that has met no other is the only one. *)
Solitary == \A t, u \in Tasks : Lone(t) /\ Running(u) => u = t

(* What it has read is what the database has. *)
Knows(t) ==
  /\ task[t].at = "events" \/ (task[t].file = "md" /\ task[t].at \in {"create", "write"})
     => task[t].title = title
  /\ \/ task[t].at \in {"create", "write"}
     \/ task[t].at = "publish" /\ task[t].file = "md"
     => task[t].times = Canonical

(* It writes into an empty file under the temporary name, publishes a      *)
(* whole text, and its Markdown is in place before it turns to the other.  *)
Holds(t) ==
  /\ task[t].at = "write" => /\ task[t].fd = tmp[task[t].file]
                             /\ content[task[t].fd] = None
  /\ task[t].at = "publish" => /\ tmp[task[t].file] # None
                               /\ content[tmp[task[t].file]] = Current(task[t].file)
  /\ task[t].file = "jsonl" => dest["md"] # None /\ content[dest["md"]] = Current("md")

LoneWorks == \A t \in Tasks : Lone(t) => Knows(t) /\ Holds(t)

IInv == /\ RowTypes /\ FileTypes /\ TaskTypes /\ TimedBySpeech
        /\ ReadFirst /\ Separate /\ Solitary /\ LoneWorks

-----------------------------------------------------------------------------
(* Lemmas about the operators of the model *)

LEMMA AlignedMoment ==
  ASSUME NEW c \in Chunks
  PROVE  AlignedTime(c) \in Moments
BY DEF AlignedTime, Moments

LEMMA CanonicalStamps ==
  ASSUME event \in [Chunks -> Moments \cup {None}]
  PROVE  Canonical \in Stamps
<1> DEFINE S == {c \in Chunks : event[c] # None}
<1>1. Canonical \in [S -> Moments]  BY DEF Canonical
<1>2. S \in SUBSET Chunks  OBVIOUS
<1> QED  BY <1>1, <1>2 DEF Stamps

(* What is rendered is whole. *)
LEMMA RenderedText ==
  ASSUME NEW f \in Files, NEW name \in Titles \cup {None}, NEW times \in Stamps
  PROVE  /\ Render(f, name, times) \in Texts
         /\ Render(f, name, times) \notin {None, Torn}
<1>1. Render(f, name, times) \in Texts  BY DEF Texts
<1> QED  BY <1>1, NoneAssumption

(* The title is in the Markdown only. *)
LEMMA NoTitleInJsonl ==
  ASSUME NEW a, NEW b, NEW times
  PROVE  Render("jsonl", a, times) = Render("jsonl", b, times)
BY DEF Render

(* An empty file takes a text as it is. *)
LEMMA WrittenWhole ==
  ASSUME NEW text
  PROVE  Written(text, None) = {text}
BY NoneAssumption DEF Written, NoShorter

LEMMA IdleType ==
  /\ Idle \in Regenerations /\ Idle.at = "idle" /\ Idle.fd = None /\ Idle.file = "md"
BY DEF Idle, Regenerations, Steps, Files

LEMMA FinishedType ==
  ASSUME NEW t \in Tasks
  PROVE  /\ Finished(t) \in Regenerations /\ Finished(t).at \in {"idle", "after"}
         /\ Finished(t).fd = None
BY DEF Finished, Idle, Regenerations, Steps, Files

(* While a temporary name is free there is an inode for it. *)
LEMMA FreeInode ==
  ASSUME NEW f \in Files, tmp[f] = None
  PROVE  \E i \in Inodes : i \notin Used
<1> DEFINE g == IF f = "md" THEN "jsonl" ELSE "md"
<1>1. Used = {tmp[g], dest["md"], dest["jsonl"], task["worker"].fd, task["rename"].fd,
              task["rebuild"].fd} \ {None}
  BY DEF Used, Files, Tasks
<1>2. ASSUME NEW a, NEW b, NEW c, NEW d, NEW e, NEW k
      PROVE  \E i \in 1 .. 7 : i \notin {a, b, c, d, e, k}
  <2> SUFFICES ASSUME \A i \in 1 .. 7 : i \in {a, b, c, d, e, k}
               PROVE  FALSE
    OBVIOUS
  <2>1. /\ 1 \in {a, b, c, d, e, k} /\ 2 \in {a, b, c, d, e, k} /\ 3 \in {a, b, c, d, e, k}
        /\ 4 \in {a, b, c, d, e, k} /\ 5 \in {a, b, c, d, e, k} /\ 6 \in {a, b, c, d, e, k}
        /\ 7 \in {a, b, c, d, e, k}
    OBVIOUS
  <2> QED  BY <2>1
<1> QED  BY <1>1, <1>2 DEF Inodes

(* What is spent stays a natural number. *)
LEMMA SpendOne ==
  ASSUME spent \in [Kinds -> Nat], NEW kind \in Kinds, Spend(kind)
  PROVE  spent' \in [Kinds -> Nat]
BY DEF Spend

LEMMA StampValues ==
  ASSUME NEW times \in Stamps
  PROVE  /\ DOMAIN times \in SUBSET Chunks
         /\ \A c \in DOMAIN times : times[c] \in Nat
<1>1. Moments \subseteq Nat  BY InfoAssumption DEF Moments
<1>2. PICK S \in SUBSET Chunks : times \in [S -> Moments]  BY DEF Stamps
<1> QED  BY <1>1, <1>2

(* The order of the events is strict and total. *)
LEMMA CmpOrder ==
  ASSUME NEW times \in Stamps
  PROVE  /\ \A a \in DOMAIN times : ~CmpEvents(times, a, a)
         /\ \A a, b \in DOMAIN times :
              a # b => CmpEvents(times, a, b) \/ CmpEvents(times, b, a)
         /\ \A a, b, c \in DOMAIN times :
              CmpEvents(times, a, b) /\ CmpEvents(times, b, c) => CmpEvents(times, a, c)
<1>1. \A c \in DOMAIN times : /\ c \in Chunks /\ times[c] \in Nat /\ Info[c].sequence \in Nat
                              /\ Info[c].source \in {"mic", "system"}
  BY StampValues, InfoAssumption
<1>2. \A a, b \in DOMAIN times : a # b /\ Info[a].source = Info[b].source =>
                                 Info[a].sequence # Info[b].sequence
  BY <1>1, InfoAssumption
<1>3. \A a \in DOMAIN times : ~CmpEvents(times, a, a)  BY <1>1 DEF CmpEvents
<1>4. ASSUME NEW a \in DOMAIN times, NEW b \in DOMAIN times, a # b
      PROVE  CmpEvents(times, a, b) \/ CmpEvents(times, b, a)
  BY <1>1, <1>2, <1>4 DEF CmpEvents
<1>5. ASSUME NEW a \in DOMAIN times, NEW b \in DOMAIN times, NEW c \in DOMAIN times,
             CmpEvents(times, a, b), CmpEvents(times, b, c)
      PROVE  CmpEvents(times, a, c)
  BY <1>1, <1>5 DEF CmpEvents
<1> QED  BY <1>3, <1>4, <1>5

(* Whatever is to be listed can be put in order, and is listed once: the   *)
(* place of a chunk is the number of chunks before it.                     *)
LEMMA SortedAll ==
  ASSUME NEW times \in Stamps, NEW T \in SUBSET DOMAIN times
  PROVE  LET sorted == SortEvents(T, times)
         IN  {sorted[i] : i \in DOMAIN sorted} = T
<1> DEFINE n        == Cardinality(T)
           Cmp(a, b) == CmpEvents(times, a, b)
           below(c) == {d \in T : Cmp(d, c)}
           rank     == [c \in T |-> Cardinality(below(c))]
<1>1. IsFiniteSet(T) /\ n \in Nat
  BY StampValues, InfoAssumption, FS_Subset, FS_CardinalityType
<1>2. /\ \A a \in T : ~Cmp(a, a)
      /\ \A a, b \in T : a # b => Cmp(a, b) \/ Cmp(b, a)
      /\ \A a, b, c \in T : Cmp(a, b) /\ Cmp(b, c) => Cmp(a, c)
  BY CmpOrder
<1> HIDE DEF Cmp
<1>3. ASSUME NEW c \in T
      PROVE  IsFiniteSet(below(c)) /\ rank[c] \in 0 .. n - 1
  <2>1. IsFiniteSet(T \ {c}) /\ Cardinality(T \ {c}) = n - 1  BY <1>1, FS_RemoveElement
  <2>2. below(c) \in SUBSET (T \ {c})  BY <1>2
  <2>3. IsFiniteSet(below(c)) /\ Cardinality(below(c)) <= n - 1  BY <2>1, <2>2, FS_Subset
  <2>4. Cardinality(below(c)) \in Nat  BY <2>3, FS_CardinalityType
  <2> QED  BY <1>1, <2>3, <2>4
<1>4. ASSUME NEW a \in T, NEW b \in T, Cmp(a, b)
      PROVE  rank[a] < rank[b]
  <2>1. below(a) \in SUBSET below(b) /\ a \in below(b) /\ a \notin below(a)
    BY <1>2, <1>4
  <2>2. /\ Cardinality(below(a)) <= Cardinality(below(b))
        /\ Cardinality(below(a)) # Cardinality(below(b))
    BY <1>3, <2>1, FS_Subset
  <2>3. rank[a] = Cardinality(below(a)) /\ rank[b] = Cardinality(below(b))  OBVIOUS
  <2>4. rank[a] \in 0 .. n - 1 /\ rank[b] \in 0 .. n - 1  BY <1>3
  <2> QED  BY <1>1, <2>2, <2>3, <2>4
<1> HIDE DEF rank
<1>5. rank \in Injection(T, 0 .. n - 1)
  <2>1. rank \in [T -> 0 .. n - 1]  BY <1>3 DEF rank
  <2>2. ASSUME NEW a \in T, NEW b \in T, rank[a] = rank[b]
        PROVE  a = b
    <3> HIDE DEF n, below
    <3>1. rank[a] \in 0 .. n - 1  BY <1>3
    <3>2. ~(rank[a] < rank[b]) /\ ~(rank[b] < rank[a])  BY <1>1, <2>2, <3>1
    <3> QED  BY <1>2, <1>4, <3>2
  <2> QED  BY <2>1, <2>2 DEF Injection, IsInjective
<1>6. \A k \in 0 .. n - 1 : \E c \in T : rank[c] = k
  <2>1. IsFiniteSet(0 .. n - 1) /\ Cardinality(0 .. n - 1) = n
    BY <1>1, FS_Interval
  <2>2. rank \in Surjection(T, 0 .. n - 1)  BY <1>5, <2>1, FS_Injection
  <2> QED  BY <2>2 DEF Surjection
<1> DEFINE e == [i \in 1 .. n |-> CHOOSE c \in T : rank[c] = i - 1]
           ordered(f) == \A i, j \in 1 .. n : i < j => Cmp(f[i], f[j])
<1>7. e \in [1 .. n -> T] /\ ordered(e)
  <2>1. ASSUME NEW i \in 1 .. n
        PROVE  e[i] \in T /\ rank[e[i]] = i - 1
    <3>1. \E c \in T : rank[c] = i - 1  BY <1>1, <1>6
    <3>2. e[i] = CHOOSE c \in T : rank[c] = i - 1  OBVIOUS
    <3> QED  BY <3>1, <3>2, Zenon
  <2>2. ASSUME NEW i \in 1 .. n, NEW j \in 1 .. n, i < j
        PROVE  Cmp(e[i], e[j])
    <3>1. /\ e[i] \in T /\ e[j] \in T /\ rank[e[i]] = i - 1 /\ rank[e[j]] = j - 1
      BY <2>1
    <3> HIDE DEF e
    <3>2. e[i] # e[j] /\ ~(rank[e[j]] < rank[e[i]])  BY <1>1, <2>2, <3>1
    <3> QED  BY <1>2, <1>4, <3>1, <3>2
  <2>3. e \in [1 .. n -> T]  BY <2>1
  <2> HIDE DEF e
  <2> QED  BY <2>2, <2>3
<1> DEFINE sorted == SortEvents(T, times)
<1>8. sorted = CHOOSE f \in [1 .. n -> T] : \A i, j \in DOMAIN f : i < j => Cmp(f[i], f[j])
  BY DEF SortEvents, Cmp
<1>9. \E f \in [1 .. n -> T] : \A i, j \in DOMAIN f : i < j => Cmp(f[i], f[j])
  BY <1>7
<1> HIDE DEF e, sorted
<1>10. /\ sorted \in [1 .. n -> T]
       /\ \A i, j \in DOMAIN sorted : i < j => Cmp(sorted[i], sorted[j])
  BY <1>8, <1>9, Zenon
<1>11. sorted \in Injection(1 .. n, T)
  <2>1. ASSUME NEW i \in 1 .. n, NEW j \in 1 .. n, i < j
        PROVE  sorted[i] # sorted[j]
    BY <1>2, <1>10, <2>1
  <2>2. \A i, j \in 1 .. n : sorted[i] = sorted[j] => i = j  BY <1>1, <2>1
  <2> QED  BY <1>10, <2>2 DEF Injection, IsInjective
<1>12. sorted \in Surjection(1 .. n, T)
  <2>1. IsFiniteSet(1 .. n) /\ Cardinality(1 .. n) = n  BY <1>1, FS_Interval
  <2> QED  BY <1>1, <1>11, <2>1, FS_Injection
<1>13. {sorted[i] : i \in DOMAIN sorted} = T  BY <1>10, <1>12 DEF Surjection
<1> QED  BY <1>13 DEF sorted

(* The chunks that get a block of their own in a file. *)
Listed(f, S) == IF f = "md" THEN {c \in S : HideHeaders(S) => Info[c].words} ELSE S

LEMMA RenderedChunks ==
  ASSUME NEW f \in Files, NEW name, NEW times \in Stamps
  PROVE  ChunksOf(Render(f, name, times)) = Listed(f, DOMAIN times)
<1> DEFINE T      == Listed(f, DOMAIN times)
           sorted == SortEvents(T, times)
           text   == Render(f, name, times)
<1>1. T \in SUBSET DOMAIN times  BY DEF Listed
<1>2. {sorted[i] : i \in DOMAIN sorted} = T  BY <1>1, SortedAll
<1>3. /\ DOMAIN text.lines = DOMAIN sorted
      /\ \A i \in DOMAIN sorted : text.lines[i].chunk = sorted[i]
  <2>1. CASE f = "md"  BY <2>1 DEF Render, RenderMarkdown, Listed
  <2>2. CASE f # "md"  BY <2>2 DEF Render, RenderJsonl, Listed
  <2> QED  BY <2>1, <2>2
<1> HIDE DEF T, sorted, text
<1>4. ChunksOf(text) = {sorted[i] : i \in DOMAIN sorted}  BY <1>3 DEF ChunksOf
<1> QED  BY <1>2, <1>4 DEF T, text

(* More events hide nothing that was listed before: headers that are shown *)
(* once are shown from then on.                                            *)
LEMMA ListedGrows ==
  ASSUME NEW f \in Files, NEW S \in SUBSET Chunks, NEW R \in SUBSET S
  PROVE  Listed(f, R) \subseteq Listed(f, S)
<1>1. SourcesWithText(R) \in SUBSET SourcesWithText(S)  BY DEF SourcesWithText
<1>2. IsFiniteSet(SourcesWithText(S))
  <2>1. SourcesWithText(S) \in SUBSET {"mic", "system"}
    BY InfoAssumption DEF SourcesWithText
  <2>2. IsFiniteSet({"mic", "system"})
    <3>1. {"mic", "system"} = {"mic"} \cup {"system"}  OBVIOUS
    <3>2. IsFiniteSet({"mic"})  BY FS_Singleton
    <3> QED  BY <3>1, <3>2, FS_AddElement
  <2> QED  BY <2>1, <2>2, FS_Subset
<1>3. Cardinality(SourcesWithText(R)) <= Cardinality(SourcesWithText(S))
  BY <1>1, <1>2, FS_Subset
<1>4. Cardinality(SourcesWithText(R)) \in Nat /\ Cardinality(SourcesWithText(S)) \in Nat
  BY <1>1, <1>2, FS_Subset, FS_CardinalityType
<1>5. HideHeaders(S) => HideHeaders(R)  BY <1>3, <1>4 DEF HideHeaders
<1> QED  BY <1>5 DEF Listed

-----------------------------------------------------------------------------
(* What the two ways of changing a task do to the others *)

(* A task that begins leaves no other one alone. *)
LEMMA EnterStep ==
  ASSUME TaskTypes, NEW t \in Tasks, ~Running(t), Enter(t)
  PROVE  /\ TaskTypes' /\ Solitary' /\ \A u \in Tasks : Lone(u)' => u = t
         /\ task'[t].at = "restamp" /\ task'[t].file = "md"
         /\ \A u \in Tasks \ {t} : /\ task'[u].at = task[u].at /\ task'[u].fd = task[u].fd
                                   /\ task'[u].file = task[u].file
                                   /\ task'[u].times = task[u].times
<1> DEFINE others == {u \in Tasks \ {t} : Running(u)}
           begun  == [Idle EXCEPT !.at = "restamp", !.alone = others = {},
                                  !.rows = {c \in Chunks : event'[c] # None}]
<1>1. /\ begun \in Regenerations /\ begun.at = "restamp" /\ begun.file = "md"
      /\ begun.fd = None /\ begun.alone = (others = {})
  <2> DEFINE rows == {c \in Chunks : event'[c] # None}
             met  == others = {}
  <2>1. rows \in SUBSET Chunks /\ met \in BOOLEAN  OBVIOUS
  <2>2. ASSUME NEW r \in SUBSET Chunks, NEW m \in BOOLEAN,
               NEW new, new = [Idle EXCEPT !.at = "restamp", !.alone = m, !.rows = r]
        PROVE  /\ new \in Regenerations /\ new.at = "restamp" /\ new.file = "md"
               /\ new.fd = None /\ new.alone = m
    BY <2>2 DEF Idle, Regenerations, Steps, Files
  <2>3. begun = [Idle EXCEPT !.at = "restamp", !.alone = met, !.rows = rows]  OBVIOUS
  <2> HIDE DEF begun, rows, met
  <2>4. /\ begun \in Regenerations /\ begun.at = "restamp" /\ begun.file = "md"
        /\ begun.fd = None /\ begun.alone = met
    BY <2>1, <2>2, <2>3
  <2> QED  BY <2>4 DEF met
<1>2. task' = [u \in Tasks |-> IF u = t THEN begun
                               ELSE IF u \in others THEN [task[u] EXCEPT !.alone = FALSE]
                               ELSE task[u]]
  BY DEF Enter, Running
<1>4. \A u \in Tasks : [task[u] EXCEPT !.alone = FALSE] \in Regenerations
  BY DEF TaskTypes, Regenerations
<1>5. \A u \in Tasks \ {t} :
        /\ task'[u].at = task[u].at /\ task'[u].fd = task[u].fd
        /\ task'[u].file = task[u].file /\ task'[u].times = task[u].times
        /\ u \in others => ~task'[u].alone
  BY <1>2 DEF TaskTypes, Regenerations
<1>6. /\ task'[t] \in Regenerations /\ task'[t].at = "restamp" /\ task'[t].file = "md"
      /\ task'[t].fd = None /\ task'[t].alone = (others = {})
  BY <1>1, <1>2
<1>7. \A u \in Tasks : Lone(u)' => u = t  BY <1>5 DEF Lone, Running
<1>8. Solitary'
  <2>1. ASSUME NEW u \in Tasks, Lone(u)', NEW w \in Tasks \ {t}, Running(w)'
        PROVE  FALSE
    <3>1. u = t /\ others = {}  BY <1>6, <1>7, <2>1 DEF Lone
    <3>2. Running(w)  BY <1>5, <2>1 DEF Running
    <3> QED  BY <3>1, <3>2
  <2> QED  BY <1>7, <2>1 DEF Solitary
<1>9. TaskTypes'
  <2>1. task' \in [Tasks -> Regenerations]  BY <1>1, <1>2, <1>4 DEF TaskTypes
  <2>2. \A u \in Tasks : task'[u].at = "write" <=> task'[u].fd # None
    BY <1>1, <1>5, <1>6 DEF TaskTypes
  <2> QED  BY <2>1, <2>2 DEF TaskTypes
<1> QED  BY <1>5, <1>6, <1>7, <1>8, <1>9

(* A task that goes on is alone as before, and only it may be. *)
LEMMA GoStep ==
  ASSUME TaskTypes, Solitary, NEW t \in Tasks, Running(t), NEW next \in Regenerations,
         next.at = "write" <=> next.fd # None,
         next.alone = task[t].alone \/ next.at \in {"idle", "after"}, Go(t, next)
  PROVE  /\ TaskTypes' /\ Solitary' /\ task'[t] = next
         /\ \A u \in Tasks \ {t} : task'[u] = task[u]
         /\ \A u \in Tasks : Lone(u)' => u = t /\ Lone(t)
<1>1. task' = [task EXCEPT ![t] = next]  BY DEF Go
<1>2. task'[t] = next /\ \A u \in Tasks \ {t} : task'[u] = task[u]
  BY <1>1 DEF TaskTypes
<1>3. TaskTypes'  BY <1>1, <1>2 DEF TaskTypes
<1>4. \A u \in Tasks : Lone(u)' => u = t /\ Lone(t)
  BY <1>2 DEF Solitary, Lone, Running
<1>5. Solitary'  BY <1>2, <1>4 DEF Solitary, Lone, Running
<1> QED  BY <1>2, <1>3, <1>4, <1>5

-----------------------------------------------------------------------------
(* The invariant, kept by whatever begins, goes on with or leaves a        *)
(* regeneration                                                            *)

LEMMA EnterKeeps ==
  ASSUME IInv, NEW t \in Tasks, ~Running(t), Enter(t), UNCHANGED files,
         RowTypes', TimedBySpeech'
  PROVE  IInv'
<1>1. /\ TaskTypes' /\ Solitary' /\ \A u \in Tasks : Lone(u)' => u = t
      /\ task'[t].at = "restamp" /\ task'[t].file = "md"
      /\ \A u \in Tasks \ {t} : /\ task'[u].at = task[u].at
                                /\ task'[u].file = task[u].file
                                /\ task'[u].times = task[u].times
  BY EnterStep DEF IInv
<1>2. FileTypes' /\ Separate'  BY DEF IInv, FileTypes, Separate, files
<1>3. ReadFirst'  BY <1>1 DEF IInv, ReadFirst
<1>4. LoneWorks'  BY <1>1 DEF LoneWorks, Knows, Holds
<1> QED  BY <1>1, <1>2, <1>3, <1>4 DEF IInv

LEMMA WorkKeeps ==
  ASSUME IInv, NEW t \in Tasks, Running(t), NEW next \in Regenerations, Go(t, next),
         next.at = "write" <=> next.fd # None,
         next.alone = task[t].alone \/ next.at \in {"idle", "after"},
         next.at \in {"restamp", "events"} => next.file = "md",
         next.at \in {"create", "write"} \/ (next.at = "publish" /\ next.file = "md")
           => next.times \in Stamps,
         RowTypes', TimedBySpeech', FileTypes', Separate',
         Lone(t) /\ next.at \notin {"idle", "after"} => Knows(t)' /\ Holds(t)'
  PROVE  IInv'
<1>1. /\ TaskTypes' /\ Solitary' /\ task'[t] = next
      /\ \A u \in Tasks \ {t} : task'[u] = task[u]
      /\ \A u \in Tasks : Lone(u)' => u = t /\ Lone(t)
  BY GoStep DEF IInv
<1>2. ReadFirst'  BY <1>1 DEF IInv, ReadFirst
<1>3. LoneWorks'  BY <1>1 DEF LoneWorks, Lone, Running
<1> QED  BY <1>1, <1>2, <1>3 DEF IInv

(* An end of whatever kind needs nothing. *)
LEMMA EndKeeps ==
  ASSUME IInv, NEW t \in Tasks, Running(t), Go(t, Finished(t)), UNCHANGED files,
         RowTypes', TimedBySpeech'
  PROVE  IInv'
<1>1. /\ Finished(t) \in Regenerations /\ Finished(t).at \in {"idle", "after"}
      /\ Finished(t).fd = None
  BY FinishedType
<1>2. FileTypes' /\ Separate'  BY DEF IInv, FileTypes, Separate, files
<1> QED  BY <1>1, <1>2, WorkKeeps

(* Nor does the end of all tasks but those that go on as they are. *)
LEMMA RestKeeps ==
  ASSUME IInv, task' \in [Tasks -> Regenerations],
         \A u \in Tasks : \/ task'[u] = task[u]
                          \/ task'[u].at \in {"idle", "after"} /\ task'[u].fd = None,
         UNCHANGED <<database, files>>, RowTypes', TimedBySpeech'
  PROVE  IInv'
<1>1. /\ title' = title /\ event' = event /\ tmp' = tmp /\ dest' = dest
      /\ content' = content /\ Canonical' = Canonical
      /\ \A f \in Files : Current(f)' = Current(f)
  BY DEF database, files, Canonical, Current
<1>2. FileTypes' /\ Separate'  BY <1>1 DEF IInv, FileTypes, Separate
<1>3. TaskTypes'  BY DEF IInv, TaskTypes
<1>4. \A u \in Tasks : Running(u)' => task'[u] = task[u] /\ Running(u)
  BY DEF Running
<1>5. ReadFirst'  BY <1>4 DEF IInv, ReadFirst, Running
<1>6. Solitary'  BY <1>4 DEF IInv, Solitary, Lone
<1>7. LoneWorks'
  <2> SUFFICES ASSUME NEW u \in Tasks, Lone(u)'
               PROVE  Knows(u)' /\ Holds(u)'
    BY DEF LoneWorks
  <2>1. task'[u] = task[u] /\ Knows(u) /\ Holds(u)  BY <1>4 DEF IInv, LoneWorks, Lone
  <2>2. Knows(u)'  BY <1>1, <2>1 DEF Knows
  <2>3. Holds(u)'
    <3>1. task[u].at = "publish" => task[u].file \in Files
      BY DEF IInv, TaskTypes, Regenerations
    <3>2. "md" \in Files  BY DEF Files
    <3> QED  BY <1>1, <2>1, <3>1, <3>2 DEF Holds
  <2> QED  BY <2>2, <2>3
<1> QED  BY <1>2, <1>3, <1>5, <1>6, <1>7 DEF IInv

-----------------------------------------------------------------------------
(* The steps *)

LEMMA BeginStep ==
  ASSUME IInv,
         \/ \E c \in Chunks : RecordSuccess(c)
         \/ \E name \in Titles : Rename(name)
         \/ Rebuild
  PROVE  IInv'
<1> USE DEF Tasks
<1>1. CASE \E c \in Chunks : RecordSuccess(c)
  <2>1. PICK c \in Chunks : RecordSuccess(c)  BY <1>1
  <2>2. RowTypes' /\ TimedBySpeech'
    BY <2>1, AlignedMoment DEF RecordSuccess, IInv, RowTypes, TimedBySpeech, AlignedTime
  <2> QED  BY <2>1, <2>2, EnterKeeps DEF RecordSuccess, Running
<1>2. CASE \E name \in Titles : Rename(name)
  <2>1. PICK name \in Titles : Rename(name)  BY <1>2
  <2>2. RowTypes' /\ TimedBySpeech'
    BY <2>1, SpendOne DEF Rename, IInv, RowTypes, TimedBySpeech, Kinds
  <2> QED  BY <2>1, <2>2, EnterKeeps DEF Rename, Running
<1>3. CASE Rebuild
  <2>1. RowTypes' /\ TimedBySpeech'
    BY <1>3, SpendOne DEF Rebuild, IInv, RowTypes, TimedBySpeech, Kinds, database
  <2> QED  BY <1>3, <2>1, EnterKeeps DEF Rebuild, Running
<1> QED  BY <1>1, <1>2, <1>3

LEMMA ReadStep ==
  ASSUME IInv, NEW t \in Tasks, Restamp(t) \/ ReadTitle(t) \/ ReadEvents(t)
  PROVE  IInv'
<1>1. /\ task[t] \in Regenerations /\ (task[t].at = "write" <=> task[t].fd # None)
      /\ task[t].at \in {"restamp", "events"} => task[t].file = "md"
  BY DEF IInv, TaskTypes, ReadFirst
<1>2. UNCHANGED files /\ FileTypes' /\ Separate'
  BY DEF Restamp, ReadTitle, ReadEvents, IInv, FileTypes, Separate, files
<1>3. CASE Restamp(t)
  <2>1. PICK c \in task[t].rows :
          /\ event' = [event EXCEPT ![c] = AlignedTime(c)]
          /\ Go(t, [task[t] EXCEPT !.rows = @ \ {c}])
    BY <1>3 DEF Restamp
  <2> DEFINE next == [task[t] EXCEPT !.rows = @ \ {c}]
  <2>2. c \in Chunks  BY <1>1, <2>1 DEF Regenerations
  <2>3. RowTypes' /\ TimedBySpeech'
    BY <1>3, <2>1, <2>2, AlignedMoment
    DEF Restamp, IInv, RowTypes, TimedBySpeech, AlignedTime
  <2>4. /\ next \in Regenerations /\ next.at = "restamp" /\ next.fd = None
        /\ next.alone = task[t].alone /\ next.file = "md"
    BY <1>1, <1>3 DEF Restamp, Regenerations
  <2>5. task'[t] = next  BY <2>1 DEF IInv, TaskTypes, Go
  <2>6. Knows(t)' /\ Holds(t)'  BY <2>4, <2>5 DEF Knows, Holds
  <2>7. Running(t)  BY <1>3 DEF Restamp, Running
  <2> HIDE DEF next
  <2> QED  BY <1>2, <2>1, <2>3, <2>4, <2>6, <2>7, WorkKeeps DEF next
<1>4. CASE ReadTitle(t)
  <2> DEFINE next == [task[t] EXCEPT !.at = "events", !.title = title]
  <2>1. Go(t, next) /\ Running(t)  BY <1>4 DEF ReadTitle, Running
  <2>2. RowTypes' /\ TimedBySpeech'
    BY <1>4 DEF ReadTitle, IInv, RowTypes, TimedBySpeech, database
  <2>3. /\ next \in Regenerations /\ next.at = "events" /\ next.fd = None
        /\ next.alone = task[t].alone /\ next.file = "md" /\ next.title = title
    BY <1>1, <1>4 DEF ReadTitle, Regenerations, IInv, RowTypes, Steps
  <2>4. task'[t] = next  BY <2>1 DEF IInv, TaskTypes, Go
  <2>5. Knows(t)' /\ Holds(t)'
    BY <1>4, <2>3, <2>4 DEF Knows, Holds, ReadTitle, database
  <2> HIDE DEF next
  <2> QED  BY <1>2, <2>1, <2>2, <2>3, <2>5, WorkKeeps
<1>5. CASE ReadEvents(t)
  <2> DEFINE next == [task[t] EXCEPT !.at = "create", !.times = Canonical]
  <2>1. Go(t, next) /\ Running(t)  BY <1>5 DEF ReadEvents, Running
  <2>2. RowTypes' /\ TimedBySpeech'
    BY <1>5 DEF ReadEvents, IInv, RowTypes, TimedBySpeech, database
  <2>3. Canonical \in Stamps  BY CanonicalStamps DEF IInv, RowTypes
  <2>4. /\ next \in Regenerations /\ next.at = "create" /\ next.fd = None
        /\ next.alone = task[t].alone /\ next.file = "md" /\ next.times = Canonical
        /\ next.title = task[t].title
    BY <1>1, <1>5, <2>3 DEF ReadEvents, Regenerations, Steps
  <2>5. task'[t] = next  BY <2>1 DEF IInv, TaskTypes, Go
  <2>6. title' = title /\ Canonical' = Canonical
    BY <1>5 DEF ReadEvents, database, Canonical
  <2>7. Lone(t) => Knows(t)' /\ Holds(t)'
    BY <1>5, <2>4, <2>5, <2>6 DEF Knows, Holds, ReadEvents, IInv, LoneWorks
  <2> HIDE DEF next
  <2> QED  BY <1>2, <2>1, <2>2, <2>3, <2>4, <2>7, WorkKeeps
<1> QED  BY <1>3, <1>4, <1>5

(* The file that is opened has no other name. *)
LEMMA OpenedFile ==
  ASSUME IInv, NEW t \in Tasks, Create(t)
  PROVE  \E inode \in Inodes :
           /\ inode # None
           /\ tmp[task[t].file] # None => inode = tmp[task[t].file]
           /\ \A f \in Files : dest[f] # inode
           /\ \A f \in Files \ {task[t].file} : tmp[f] # inode
           /\ tmp' = [tmp EXCEPT ![task[t].file] = inode]
           /\ content' = [content EXCEPT ![inode] = None]
           /\ Go(t, [task[t] EXCEPT !.at = "write", !.fd = inode])
<1> DEFINE f     == task[t].file
           inode == IF tmp[f] # None THEN tmp[f] ELSE CHOOSE i \in Inodes \ Used : TRUE
<1>1. f \in Files  BY DEF IInv, TaskTypes, Regenerations
<1>2. /\ tmp' = [tmp EXCEPT ![f] = inode]
      /\ content' = [content EXCEPT ![inode] = None]
      /\ Go(t, [task[t] EXCEPT !.at = "write", !.fd = inode])
  BY DEF Create
<1>3. CASE tmp[f] # None
  <2>1. inode = tmp[f] /\ inode \in Inodes  BY <1>1, <1>3 DEF IInv, FileTypes
  <2>2. /\ \A g \in Files : dest[g] # inode
        /\ \A g \in Files \ {f} : tmp[g] # inode
    BY <1>1, <1>3, <2>1 DEF IInv, Separate
  <2> QED  BY <1>2, <1>3, <2>1, <2>2
<1>4. CASE tmp[f] = None
  <2>1. \E i \in Inodes : i \notin Used  BY <1>1, <1>4, FreeInode
  <2>2. inode \in Inodes \ Used  BY <1>4, <2>1, Zenon
  <2>3. inode # None  BY <2>2, NoneAssumption
  <2>4. \A g \in Files : dest[g] # inode /\ tmp[g] # inode
    BY <2>2, <2>3 DEF Used
  <2> QED  BY <1>2, <1>4, <2>2, <2>3, <2>4
<1> QED  BY <1>3, <1>4

LEMMA CreateStep ==
  ASSUME IInv, NEW t \in Tasks, Create(t)
  PROVE  IInv'
<1> DEFINE f == task[t].file
<1>1. PICK inode \in Inodes :
        /\ inode # None
        /\ \A g \in Files : dest[g] # inode
        /\ \A g \in Files \ {f} : tmp[g] # inode
        /\ tmp' = [tmp EXCEPT ![f] = inode]
        /\ content' = [content EXCEPT ![inode] = None]
        /\ Go(t, [task[t] EXCEPT !.at = "write", !.fd = inode])
  BY OpenedFile
<1> DEFINE next == [task[t] EXCEPT !.at = "write", !.fd = inode]
<1>2. /\ task[t] \in Regenerations /\ task[t].at = "create" /\ f \in Files
      /\ task[t].times \in Stamps
  BY DEF Create, IInv, TaskTypes, ReadFirst, Regenerations
<1>3. /\ next \in Regenerations /\ next.at = "write" /\ next.fd = inode
      /\ next.alone = task[t].alone /\ next.file = f
      /\ next.times = task[t].times /\ next.title = task[t].title
  BY <1>2 DEF Regenerations, Steps
<1>4. /\ RowTypes' /\ TimedBySpeech' /\ title' = title /\ event' = event /\ dest' = dest
      /\ Canonical' = Canonical
  BY DEF Create, IInv, RowTypes, TimedBySpeech, database, Canonical
<1>5. FileTypes'  BY <1>1, <1>2, <1>4 DEF IInv, FileTypes
<1>6. /\ tmp'[f] = inode /\ content'[inode] = None
      /\ \A g \in Files \ {f} : tmp'[g] = tmp[g]
      /\ \A i \in Inodes \ {inode} : content'[i] = content[i]
  BY <1>1, <1>2 DEF IInv, FileTypes
<1>7. Separate'  BY <1>1, <1>4, <1>6 DEF IInv, Separate
<1>8. task'[t] = next  BY <1>1 DEF IInv, TaskTypes, Go
<1>9. ASSUME Lone(t)
      PROVE  Knows(t)' /\ Holds(t)'
  <2>1. Knows(t) /\ Holds(t)  BY <1>9 DEF IInv, LoneWorks
  <2>2. Knows(t)'  BY <1>2, <1>3, <1>4, <1>8, <2>1 DEF Knows
  <2>3. "md" \in Files /\ dest["md"] \in Inodes \cup {None}  BY DEF Files, IInv, FileTypes
  <2>4. Current("md")' = Current("md")  BY <1>4 DEF Current
  <2>5. f = "jsonl" => dest'["md"] # None /\ content'[dest'["md"]] = Current("md")'
    BY <1>1, <1>4, <1>6, <2>1, <2>3, <2>4 DEF Holds
  <2>6. Holds(t)'  BY <1>3, <1>6, <1>8, <2>5 DEF Holds
  <2> QED  BY <2>2, <2>6
<1>10. Running(t)  BY <1>2 DEF Running
<1> HIDE DEF next
<1> QED  BY <1>1, <1>2, <1>3, <1>4, <1>5, <1>7, <1>9, <1>10, WorkKeeps DEF next

LEMMA WriteStep ==
  ASSUME IInv, NEW t \in Tasks, WriteAll(t)
  PROVE  IInv'
<1> DEFINE f    == task[t].file
           text == Render(f, task[t].title, task[t].times)
           next == [task[t] EXCEPT !.at = "publish", !.fd = None, !.title = None,
                                   !.times = IF f = "md" THEN @ ELSE None]
<1>1. /\ task[t] \in Regenerations /\ task[t].at = "write" /\ f \in Files
      /\ task[t].times \in Stamps /\ task[t].fd \in Inodes
      /\ task[t].title \in Titles \cup {None}
  BY DEF WriteAll, IInv, TaskTypes, ReadFirst, Regenerations
<1>2. PICK result \in Written(text, content[task[t].fd]) :
        content' = [content EXCEPT ![task[t].fd] = result]
  BY DEF WriteAll
<1>3. Go(t, next) /\ Running(t)  BY DEF WriteAll, Running
<1>4. /\ next \in Regenerations /\ next.at = "publish" /\ next.fd = None
      /\ next.alone = task[t].alone /\ next.file = f
      /\ f = "md" => next.times = task[t].times
  BY <1>1 DEF Regenerations, Steps
<1>5. /\ RowTypes' /\ TimedBySpeech' /\ title' = title /\ event' = event /\ dest' = dest
      /\ tmp' = tmp /\ Canonical' = Canonical
  BY DEF WriteAll, IInv, RowTypes, TimedBySpeech, database, Canonical
<1>6. result \in {text, Torn}  BY <1>2 DEF Written
<1>7. text \in Texts  BY <1>1, RenderedText
<1>8. FileTypes' /\ Separate'
  BY <1>1, <1>2, <1>5, <1>6, <1>7 DEF IInv, FileTypes, Separate
<1>9. /\ content'[task[t].fd] = result
      /\ \A i \in Inodes \ {task[t].fd} : content'[i] = content[i]
  BY <1>1, <1>2 DEF IInv, FileTypes
<1>10. task'[t] = next  BY <1>3 DEF IInv, TaskTypes, Go
<1>11. ASSUME Lone(t)
       PROVE  Knows(t)' /\ Holds(t)'
  <2>1. Knows(t) /\ Holds(t)  BY <1>11 DEF IInv, LoneWorks
  <2>2. Knows(t)'  BY <1>1, <1>4, <1>5, <1>10, <2>1 DEF Knows
  <2>3. task[t].fd = tmp[f] /\ tmp[f] # None /\ result = text
    BY <1>1, <1>2, <2>1, WrittenWhole, NoneAssumption DEF Holds
  <2>4. \A g \in Files : Current(g)' = Current(g)  BY <1>5 DEF Current
  <2>5. text = Current(f)
    BY <1>1, <2>1, NoTitleInJsonl DEF Knows, Current, Files
  <2>6. "md" \in Files /\ dest["md"] \in Inodes \cup {None}  BY DEF Files, IInv, FileTypes
  <2>7. dest["md"] # None => dest["md"] # tmp[f]
    BY <1>1, <2>3, <2>6 DEF IInv, Separate
  <2>8. Holds(t)'
    BY <1>1, <1>4, <1>5, <1>9, <1>10, <2>1, <2>3, <2>4, <2>5, <2>6, <2>7 DEF Holds
  <2> QED  BY <2>2, <2>8
<1> HIDE DEF next
<1> QED  BY <1>1, <1>3, <1>4, <1>5, <1>8, <1>11, WorkKeeps

(* A publication that succeeds: the file has the written text, the other   *)
(* one keeps its own.                                                      *)
LEMMA PublishedFile ==
  ASSUME IInv, NEW t \in Tasks, Publish(t), NEW f \in Files, f = task[t].file,
         tmp[f] # None
  PROVE  /\ dest'[f] = tmp[f] /\ content'[tmp[f]] = content[tmp[f]]
         /\ \A g \in Files \ {f} : /\ dest'[g] = dest[g]
                                   /\ dest[g] # None => content'[dest[g]] = content[dest[g]]
         /\ FileTypes' /\ Separate'
<1>1. /\ dest' = [dest EXCEPT ![f] = tmp[f]]
      /\ tmp' = [tmp EXCEPT ![f] = None]
      /\ content' = [i \in Inodes |->
           IF i = dest[f] /\ \A u \in Tasks : task[u].fd # i THEN None ELSE content[i]]
  BY DEF Publish
<1>2. FileTypes  BY DEF IInv
<1>3. /\ dest'[f] = tmp[f] /\ tmp'[f] = None /\ tmp[f] \in Inodes /\ tmp[f] # dest[f]
      /\ \A g \in Files \ {f} : dest'[g] = dest[g] /\ tmp'[g] = tmp[g]
  BY <1>1, <1>2 DEF FileTypes, IInv, Separate
<1>4. content'[tmp[f]] = content[tmp[f]]  BY <1>1, <1>3
<1>5. \A g \in Files \ {f} : dest[g] # None => content'[dest[g]] = content[dest[g]]
  <2>1. \A g \in Files \ {f} : dest[g] # None => dest[g] \in Inodes /\ dest[g] # dest[f]
    BY <1>2 DEF FileTypes, IInv, Separate
  <2> QED  BY <1>1, <2>1
<1>6. FileTypes'  BY <1>1, <1>2, <1>3 DEF FileTypes
<1>7. Separate'  BY <1>3 DEF IInv, Separate
<1> QED  BY <1>3, <1>4, <1>5, <1>6, <1>7

LEMMA PublishStep ==
  ASSUME IInv, NEW t \in Tasks, Publish(t)
  PROVE  IInv'
<1> DEFINE f == task[t].file
<1>1. /\ task[t] \in Regenerations /\ task[t].at = "publish" /\ task[t].fd = None
      /\ f \in Files /\ Running(t)
  BY DEF Publish, IInv, TaskTypes, Regenerations, Running
<1>2. /\ RowTypes' /\ TimedBySpeech' /\ title' = title /\ event' = event
      /\ Canonical' = Canonical
  BY DEF Publish, IInv, RowTypes, TimedBySpeech, database, Canonical
<1>3. CASE tmp[f] = None
  BY <1>1, <1>2, <1>3, EndKeeps DEF Publish
<1>4. CASE tmp[f] # None
  <2>1. /\ dest'[f] = tmp[f] /\ content'[tmp[f]] = content[tmp[f]]
        /\ FileTypes' /\ Separate'
    BY <1>1, <1>4, PublishedFile
  <2>2. CASE f = "md"
    <3> DEFINE next == [task[t] EXCEPT !.at = "create", !.file = "jsonl"]
    <3>1. Go(t, next)  BY <1>4, <2>2 DEF Publish
    <3>2. /\ next \in Regenerations /\ next.at = "create" /\ next.fd = None
          /\ next.alone = task[t].alone /\ next.file = "jsonl"
          /\ next.times = task[t].times
      BY <1>1 DEF Regenerations, Steps, Files
    <3>3. task[t].times \in Stamps  BY <1>1, <2>2 DEF IInv, ReadFirst
    <3>4. task'[t] = next  BY <3>1 DEF IInv, TaskTypes, Go
    <3>5. ASSUME Lone(t)
          PROVE  Knows(t)' /\ Holds(t)'
      <4>1. Knows(t) /\ Holds(t)  BY <3>5 DEF IInv, LoneWorks
      <4>2. Knows(t)'  BY <1>1, <1>2, <2>2, <3>2, <3>4, <4>1 DEF Knows
      <4>3. Current("md")' = Current("md")  BY <1>2 DEF Current
      <4>4. Holds(t)'  BY <1>1, <1>4, <2>1, <2>2, <3>2, <3>4, <4>1, <4>3 DEF Holds
      <4> QED  BY <4>2, <4>4
    <3> HIDE DEF next
    <3> QED  BY <1>1, <1>2, <2>1, <3>1, <3>2, <3>3, <3>5, WorkKeeps
  <2>3. CASE f # "md"
    <3>1. Go(t, Finished(t))  BY <1>4, <2>3 DEF Publish
    <3> QED  BY <1>1, <1>2, <2>1, <3>1, FinishedType, WorkKeeps
  <2> QED  BY <2>2, <2>3
<1> QED  BY <1>3, <1>4

LEMMA FailStep ==
  ASSUME IInv, NEW t \in Tasks, Fail(t)
  PROVE  IInv'
<1>1. RowTypes' /\ TimedBySpeech'
  BY SpendOne DEF Fail, IInv, RowTypes, TimedBySpeech, Kinds, database
<1> QED  BY <1>1, EndKeeps DEF Fail, Running

LEMMA OtherStep ==
  ASSUME IInv,
         \/ RemoveAudio \/ Crash \/ UNCHANGED vars
         \/ \E c \in Chunks : DeleteSessionAudio(c)
  PROVE  IInv'
<1>1. task \in [Tasks -> Regenerations]  BY DEF IInv, TaskTypes
<1>2. CASE RemoveAudio
  <2>1. RowTypes' /\ TimedBySpeech'
    BY <1>2 DEF RemoveAudio, IInv, RowTypes, TimedBySpeech, database
  <2>2. task' = [task EXCEPT !["worker"] = Idle]  BY <1>2 DEF RemoveAudio, Go
  <2> QED  BY <1>1, <1>2, <2>1, <2>2, IdleType, RestKeeps DEF RemoveAudio
<1>3. CASE Crash
  <2>1. RowTypes' /\ TimedBySpeech'
    BY <1>3, SpendOne DEF Crash, IInv, RowTypes, TimedBySpeech, database, Kinds
  <2>2. task' = [t \in Tasks |-> IF t = "rebuild" THEN task[t] ELSE Idle]
    BY <1>3 DEF Crash
  <2> QED  BY <1>1, <1>3, <2>1, <2>2, IdleType, RestKeeps DEF Crash
<1>4. CASE UNCHANGED vars
  <2>1. RowTypes' /\ TimedBySpeech'
    BY <1>4 DEF vars, IInv, RowTypes, TimedBySpeech, database
  <2> QED  BY <1>1, <1>4, <2>1, RestKeeps DEF vars
<1>5. CASE \E c \in Chunks : DeleteSessionAudio(c)
  <2>1. RowTypes' /\ TimedBySpeech'
    BY <1>5 DEF DeleteSessionAudio, IInv, RowTypes, TimedBySpeech, database
  <2>2. UNCHANGED <<database, files, task>>  BY <1>5 DEF DeleteSessionAudio
  <2> QED  BY <1>1, <2>1, <2>2, RestKeeps
<1> QED  BY <1>2, <1>3, <1>4, <1>5

LEMMA InitInv == Init => IInv
<1> SUFFICES ASSUME Init
             PROVE  IInv
  OBVIOUS
<1>1. \A t \in Tasks : task[t] = Idle  BY DEF Init
<1>2. \A t \in Tasks : ~Running(t)  BY <1>1, IdleType DEF Running
<1>3. RowTypes /\ FileTypes /\ TimedBySpeech
  BY DEF Init, RowTypes, FileTypes, TimedBySpeech
<1>4. TaskTypes /\ ReadFirst  BY <1>1, IdleType DEF Init, TaskTypes, ReadFirst
<1>5. Separate  BY DEF Init, Separate
<1>6. Solitary /\ LoneWorks  BY <1>2 DEF Solitary, LoneWorks, Lone
<1> QED  BY <1>3, <1>4, <1>5, <1>6 DEF IInv

LEMMA NextInv == IInv /\ [Next]_vars => IInv'
<1> SUFFICES ASSUME IInv, [Next]_vars
             PROVE  IInv'
  OBVIOUS
<1>1. ASSUME NEW t \in Tasks, Regenerate(t)
      PROVE  IInv'
  BY <1>1, ReadStep, CreateStep, WriteStep, PublishStep, FailStep DEF Regenerate
<1> QED  BY <1>1, BeginStep, OtherStep DEF Next

LEMMA Inductive == Spec => []IInv
BY InitInv, NextInv, PTL DEF Spec

-----------------------------------------------------------------------------
(* Who changes what a reader sees: only a publication, once no two         *)
(* regenerations overlap.                                                  *)
LEMMA OnlyPublished ==
  ASSUME IInv, [Next]_vars, \A t \in Tasks : task[t].alone, NEW f \in Files,
         Shown(f)' # Shown(f)
  PROVE  \E t \in Tasks : /\ Publish(t) /\ Lone(t) /\ tmp[f] # None /\ task[t].file = f
                          /\ Shown(f)' = Current(f)
<1>1. \A t \in Tasks : /\ task[t].file \in Files
                       /\ Running(t) => Lone(t) /\ Knows(t) /\ Holds(t)
  BY DEF IInv, LoneWorks, Lone, TaskTypes, Regenerations
<1>2. ~UNCHANGED files  BY DEF files, Shown
<1>3. PICK t \in Tasks : Create(t) \/ WriteAll(t) \/ Publish(t)
  BY <1>2 DEF Next, vars, files, RecordSuccess, Rename, Rebuild, Restamp, ReadTitle, ReadEvents,
     Fail, RemoveAudio, DeleteSessionAudio, Crash, Regenerate
<1>4. dest[f] \in Inodes \cup {None}  BY DEF IInv, FileTypes
<1>5. CASE Create(t)
  <2>1. PICK inode \in Inodes : /\ \A g \in Files : dest[g] # inode
                                /\ content' = [content EXCEPT ![inode] = None]
    BY <1>5, OpenedFile
  <2>2. dest' = dest /\ \A i \in Inodes \ {inode} : content'[i] = content[i]
    BY <1>5, <2>1 DEF Create, IInv, FileTypes
  <2> QED  BY <1>4, <2>1, <2>2 DEF Shown
<1>6. CASE WriteAll(t)
  <2>1. task[t].fd = tmp[task[t].file] /\ task[t].fd # None
    BY <1>1, <1>6 DEF WriteAll, Running, Holds, IInv, TaskTypes
  <2>2. dest[f] # task[t].fd  BY <1>1, <2>1 DEF IInv, Separate
  <2>3. dest' = dest /\ \A i \in Inodes \ {task[t].fd} : content'[i] = content[i]
    BY <1>6 DEF WriteAll, IInv, FileTypes
  <2> QED  BY <1>4, <2>2, <2>3 DEF Shown
<1>7. CASE Publish(t)
  <2>1. Lone(t) /\ Holds(t) /\ task[t].at = "publish"  BY <1>1, <1>7 DEF Publish, Running
  <2>2. PICK h \in Files : h = task[t].file  BY <1>1
  <2>3. tmp[h] # None  BY <2>1, <2>2 DEF Holds
  <2>4. /\ dest'[h] = tmp[h] /\ content'[tmp[h]] = content[tmp[h]]
        /\ \A g \in Files \ {h} : /\ dest'[g] = dest[g]
                                  /\ dest[g] # None => content'[dest[g]] = content[dest[g]]
    BY <1>7, <2>2, <2>3, PublishedFile
  <2>5. f = h  BY <2>4 DEF Shown
  <2>6. Shown(f)' = Current(f)  BY <2>1, <2>2, <2>3, <2>4, <2>5 DEF Shown, Holds
  <2> QED  BY <1>7, <2>1, <2>2, <2>3, <2>5, <2>6
<1> QED  BY <1>3, <1>5, <1>6, <1>7

-----------------------------------------------------------------------------
(* Whose files they are: what the names of a file hold is of chunks that *)
(* still have events.                                                     *)

Spoken == {c \in Chunks : event[c] # None}

(* What a file may hold while these chunks have events. *)
TextsOf(f, S) ==
  {Render(f, name, times) : name \in Titles \cup {None},
                            times \in {x \in Stamps : DOMAIN x \subseteq S}}

(* What was read for writing was in the database, and still is. *)
ReadSpoken ==
  \A t \in Tasks :
    \/ task[t].at \in {"create", "write"}
    \/ task[t].at = "publish" /\ task[t].file = "md"
    => DOMAIN task[t].times \subseteq Spoken

(* A file that a regeneration has open has no name of the other file. *)
OwnFile ==
  \A t \in Tasks, f \in Files :
    task[t].fd # None /\ f # task[t].file => task[t].fd \notin {tmp[f], dest[f]}

(* The names of a file have texts of its own, of chunks that have events. *)
OwnText ==
  \A f \in Files : \A i \in {tmp[f], dest[f]} \ {None} :
    content[i] \in TextsOf(f, Spoken) \cup {None, Torn}

Own == ReadSpoken /\ OwnFile /\ OwnText

LEMMA SpokenGrows == IInv /\ [Next]_vars => Spoken \subseteq Spoken'
<1> SUFFICES ASSUME IInv, [Next]_vars
             PROVE  \A c \in Chunks : event[c] # None => event'[c] # None
  BY DEF Spoken
<1>1. \A c \in Chunks : AlignedTime(c) # None
  BY AlignedMoment, NoneAssumption
<1>2. event \in [Chunks -> Moments \cup {None}]  BY DEF IInv, RowTypes
<1>3. ASSUME NEW c \in Chunks, event' = [event EXCEPT ![c] = AlignedTime(c)]
      PROVE  \A d \in Chunks : event[d] # None => event'[d] # None
  BY <1>1, <1>2, <1>3
<1>4. CASE UNCHANGED event  BY <1>4
<1>5. CASE \E c \in Chunks : RecordSuccess(c)  BY <1>3, <1>5 DEF RecordSuccess
<1>6. CASE \E t \in Tasks : Restamp(t)
  BY <1>3, <1>6 DEF Restamp, IInv, TaskTypes, Regenerations
<1> QED
  BY <1>4, <1>5, <1>6 DEF Next, vars, database, Rename, Rebuild, ReadTitle, ReadEvents, Create,
     WriteAll, Publish, Fail, RemoveAudio, DeleteSessionAudio, Crash, Regenerate

LEMMA TextsGrow ==
  ASSUME NEW f, NEW R, NEW S, R \subseteq S
  PROVE  TextsOf(f, R) \subseteq TextsOf(f, S)
BY DEF TextsOf

(* The file that is opened under a free name is nobody's. *)
LEMMA NewInode ==
  ASSUME IInv, NEW t \in Tasks, Create(t), tmp[task[t].file] = None
  PROVE  tmp'[task[t].file] \notin Used
<1> DEFINE f == task[t].file
           i == CHOOSE i \in Inodes \ Used : TRUE
<1>1. f \in Files  BY DEF IInv, TaskTypes, Regenerations
<1>2. tmp' = [tmp EXCEPT ![f] = i]  BY DEF Create
<1>3. \E k \in Inodes : k \notin Used  BY <1>1, FreeInode
<1>4. i \in Inodes \ Used  BY <1>3, Zenon
<1> QED  BY <1>1, <1>2, <1>4 DEF IInv, FileTypes

LEMMA InitOwn == Init => Own
BY IdleType, NoneAssumption DEF Init, Own, ReadSpoken, OwnFile, OwnText

LEMMA OwnStep ==
  ASSUME IInv, Own, [Next]_vars
  PROVE  Own'
<1>1. Spoken \subseteq Spoken'  BY SpokenGrows
<1>2. \A f \in Files : TextsOf(f, Spoken) \subseteq TextsOf(f, Spoken')  BY <1>1, TextsGrow
<1>3. FileTypes /\ \A t \in Tasks : task[t] \in Regenerations
  BY DEF IInv, TaskTypes
(* A step that leaves the files alone. *)
<1>4. ASSUME UNCHANGED files,
             \A t \in Tasks : \/ /\ task'[t].at = task[t].at /\ task'[t].file = task[t].file
                                 /\ task'[t].fd = task[t].fd
                                 /\ task'[t].times = task[t].times
                              \/ /\ task'[t].at \in {"idle", "after", "restamp", "events"}
                                 /\ task'[t].fd = None
                              \/ /\ task'[t].at = "create" /\ task'[t].fd = None
                                 /\ DOMAIN task'[t].times \subseteq Spoken'
      PROVE  Own'
  <2>1. tmp' = tmp /\ dest' = dest /\ content' = content  BY <1>4 DEF files
  <2>2. ReadSpoken'
    <3> SUFFICES ASSUME NEW t \in Tasks,
                        \/ task'[t].at \in {"create", "write"}
                        \/ task'[t].at = "publish" /\ task'[t].file = "md"
                 PROVE  DOMAIN task'[t].times \subseteq Spoken'
      BY DEF ReadSpoken
    <3> QED  BY <1>1, <1>4 DEF Own, ReadSpoken
  <2>3. OwnFile'  BY <1>4, <2>1 DEF Own, OwnFile
  <2>4. OwnText'  BY <1>2, <2>1 DEF Own, OwnText
  <2> QED  BY <2>2, <2>3, <2>4 DEF Own
<1> USE DEF Tasks
<1>5. CASE \/ \E c \in Chunks : RecordSuccess(c)
           \/ \E name \in Titles : Rename(name)
           \/ Rebuild
  <2>1. PICK t \in Tasks : ~Running(t) /\ Enter(t) /\ UNCHANGED files
    BY <1>5 DEF RecordSuccess, Rename, Rebuild, Running
  <2>2. /\ TaskTypes' /\ task'[t].at = "restamp"
        /\ \A u \in Tasks \ {t} : /\ task'[u].at = task[u].at /\ task'[u].fd = task[u].fd
                                  /\ task'[u].file = task[u].file
                                  /\ task'[u].times = task[u].times
    BY <2>1, EnterStep DEF IInv
  <2>3. task'[t].fd = None  BY <2>2 DEF TaskTypes
  <2> QED  BY <1>4, <2>1, <2>2, <2>3
<1>6. CASE \E t \in Tasks : Restamp(t) \/ ReadTitle(t) \/ ReadEvents(t)
  <2>1. PICK t \in Tasks : Restamp(t) \/ ReadTitle(t) \/ ReadEvents(t)  BY <1>6
  <2>2. UNCHANGED files  BY <2>1 DEF Restamp, ReadTitle, ReadEvents, files
  <2>3. task[t].fd = None
    BY <2>1 DEF Restamp, ReadTitle, ReadEvents, IInv, TaskTypes
  <2>4. \A u \in Tasks \ {t} : task'[u] = task[u]
    BY <2>1 DEF Restamp, ReadTitle, ReadEvents, Go, IInv, TaskTypes
  <2>5. \/ task'[t].at \in {"restamp", "events"} /\ task'[t].fd = None
        \/ /\ task'[t].at = "create" /\ task'[t].fd = None
           /\ DOMAIN task'[t].times \subseteq Spoken'
    <3>1. CASE Restamp(t)
      BY <1>3, <2>3, <3>1 DEF Restamp, Go, Regenerations, IInv, TaskTypes
    <3>2. CASE ReadTitle(t)
      BY <1>3, <2>3, <3>2 DEF ReadTitle, Go, Regenerations, IInv, TaskTypes
    <3>3. CASE ReadEvents(t)
      <4>1. task'[t].at = "create" /\ task'[t].fd = None /\ task'[t].times = Canonical
        BY <1>3, <2>3, <3>3 DEF ReadEvents, Go, Regenerations, IInv, TaskTypes
      <4>2. DOMAIN Canonical = Spoken  BY DEF Canonical, Spoken
      <4> QED  BY <1>1, <4>1, <4>2
    <3> QED  BY <2>1, <3>1, <3>2, <3>3
  <2> QED  BY <1>4, <2>2, <2>4, <2>5
<1>7. CASE \/ RemoveAudio \/ Crash \/ UNCHANGED vars
           \/ \E c \in Chunks : DeleteSessionAudio(c)
           \/ \E t \in Tasks : Fail(t)
  <2>1. UNCHANGED files
    BY <1>7 DEF RemoveAudio, Crash, vars, DeleteSessionAudio, Fail
  <2>2. \A u \in Tasks : \/ task'[u] = task[u]
                         \/ task'[u].at \in {"idle", "after"} /\ task'[u].fd = None
    <3>1. CASE RemoveAudio  BY <3>1, IdleType DEF RemoveAudio, Go, IInv, TaskTypes
    <3>2. CASE Crash  BY <3>2, IdleType DEF Crash
    <3>3. CASE UNCHANGED vars \/ \E c \in Chunks : DeleteSessionAudio(c)
      BY <3>3 DEF vars, DeleteSessionAudio
    <3>4. CASE \E t \in Tasks : Fail(t)
      <4>1. PICK t \in Tasks : Go(t, Finished(t))  BY <3>4 DEF Fail
      <4> QED  BY <4>1, FinishedType DEF Go, IInv, TaskTypes
    <3> QED  BY <1>7, <3>1, <3>2, <3>3, <3>4
  <2> QED  BY <1>4, <2>1, <2>2
<1>8. CASE \E t \in Tasks : Create(t)
  <2>1. PICK t \in Tasks : Create(t)  BY <1>8
  <2> DEFINE g == task[t].file
  <2>2. PICK inode \in Inodes :
          /\ inode # None
          /\ tmp[g] # None => inode = tmp[g]
          /\ \A f \in Files : dest[f] # inode
          /\ \A f \in Files \ {g} : tmp[f] # inode
          /\ tmp' = [tmp EXCEPT ![g] = inode]
          /\ content' = [content EXCEPT ![inode] = None]
          /\ Go(t, [task[t] EXCEPT !.at = "write", !.fd = inode])
    BY <2>1, OpenedFile
  <2>3. /\ task'[t].at = "write" /\ task'[t].fd = inode /\ task'[t].file = g
        /\ task'[t].times = task[t].times /\ g \in Files
        /\ \A u \in Tasks \ {t} : task'[u] = task[u]
    BY <1>3, <2>2 DEF Go, Regenerations, IInv, TaskTypes
  <2>4. dest' = dest /\ task[t].at = "create"  BY <2>1 DEF Create
  <2>5. /\ tmp'[g] = inode /\ \A f \in Files \ {g} : tmp'[f] = tmp[f]
        /\ content'[inode] = None /\ \A i \in Inodes \ {inode} : content'[i] = content[i]
    BY <1>3, <2>2, <2>3 DEF FileTypes
  <2>6. ReadSpoken'  BY <1>1, <2>3, <2>4 DEF Own, ReadSpoken
  <2>7. OwnFile'
    <3> SUFFICES ASSUME NEW u \in Tasks, NEW f \in Files, task'[u].fd # None,
                        f # task'[u].file
                 PROVE  task'[u].fd \notin {tmp'[f], dest'[f]}
      BY DEF OwnFile
    <3>1. CASE u = t  BY <2>2, <2>3, <2>4, <2>5, <3>1
    <3>2. CASE u # t
      <4>1. /\ task'[u] = task[u] /\ task[u].fd # None /\ f # task[u].file
            /\ task[u].fd \notin {tmp[f], dest[f]}
        BY <2>3, <3>2 DEF Own, OwnFile
      <4>2. CASE f # g  BY <2>3, <2>4, <2>5, <4>1, <4>2
      <4>3. CASE f = g /\ tmp[g] # None  BY <2>2, <2>4, <2>5, <4>1, <4>3
      <4>4. CASE f = g /\ tmp[g] = None
        <5>1. inode \notin Used  BY <2>1, <2>2, <2>5, <4>4, NewInode
        <5>2. task[u].fd \in Used  BY <4>1 DEF Used
        <5> QED  BY <2>4, <2>5, <4>1, <4>4, <5>1, <5>2
      <4> QED  BY <4>2, <4>3, <4>4
    <3> QED  BY <3>1, <3>2
  <2>8. OwnText'
    <3> SUFFICES ASSUME NEW f \in Files, NEW i \in {tmp'[f], dest'[f]} \ {None}
                 PROVE  content'[i] \in TextsOf(f, Spoken') \cup {None, Torn}
      BY DEF OwnText
    <3>1. CASE i = inode  BY <2>5, <3>1
    <3>2. CASE i # inode
      <4>1. i \in {tmp[f], dest[f]} \ {None}  BY <2>3, <2>4, <2>5, <3>2
      <4>2. i \in Inodes  BY <1>3, <4>1 DEF FileTypes
      <4> QED  BY <1>2, <2>5, <3>2, <4>1, <4>2 DEF Own, OwnText
    <3> QED  BY <3>1, <3>2
  <2> QED  BY <2>6, <2>7, <2>8 DEF Own
<1>9. CASE \E t \in Tasks : WriteAll(t)
  <2>1. PICK t \in Tasks : WriteAll(t)  BY <1>9
  <2> DEFINE g    == task[t].file
             fd   == task[t].fd
             text == Render(g, task[t].title, task[t].times)
  <2>2. PICK result \in Written(text, content[fd]) : content' = [content EXCEPT ![fd] = result]
    BY <2>1 DEF WriteAll
  <2>3. /\ task[t].at = "write" /\ fd # None /\ fd \in Inodes /\ g \in Files
        /\ task[t].title \in Titles \cup {None} /\ task[t].times \in Stamps
        /\ DOMAIN task[t].times \subseteq Spoken
    BY <1>3, <2>1 DEF WriteAll, Regenerations, IInv, TaskTypes, ReadFirst, Own, ReadSpoken
  <2>4. /\ task'[t].at = "publish" /\ task'[t].fd = None /\ task'[t].file = g
        /\ g = "md" => task'[t].times = task[t].times
        /\ \A u \in Tasks \ {t} : task'[u] = task[u]
    BY <1>3, <2>1 DEF WriteAll, Go, Regenerations, IInv, TaskTypes
  <2>5. tmp' = tmp /\ dest' = dest  BY <2>1 DEF WriteAll
  <2>6. /\ content'[fd] = result
        /\ \A i \in Inodes \ {fd} : content'[i] = content[i]
    BY <1>3, <2>2, <2>3 DEF FileTypes
  <2>7. ReadSpoken'  BY <1>1, <2>3, <2>4 DEF Own, ReadSpoken
  <2>8. OwnFile'  BY <2>4, <2>5 DEF Own, OwnFile
  <2>9. OwnText'
    <3> SUFFICES ASSUME NEW f \in Files, NEW i \in {tmp'[f], dest'[f]} \ {None}
                 PROVE  content'[i] \in TextsOf(f, Spoken') \cup {None, Torn}
      BY DEF OwnText
    <3>1. CASE i = fd
      <4>1. f = g  BY <2>3, <2>5, <3>1 DEF Own, OwnFile
      <4>2. text \in TextsOf(g, Spoken)  BY <2>3 DEF TextsOf
      <4>3. result \in {text, Torn}  BY <2>2 DEF Written
      <4> QED  BY <1>2, <2>6, <3>1, <4>1, <4>2, <4>3
    <3>2. CASE i # fd
      <4>1. i \in Inodes  BY <1>3, <2>5 DEF FileTypes
      <4> QED  BY <1>2, <2>5, <2>6, <3>2, <4>1 DEF Own, OwnText
    <3> QED  BY <3>1, <3>2
  <2> QED  BY <2>7, <2>8, <2>9 DEF Own
<1>10. CASE \E t \in Tasks : Publish(t)
  <2>1. PICK t \in Tasks : Publish(t)  BY <1>10
  <2> DEFINE g == task[t].file
  <2>2. /\ task[t].at = "publish" /\ task[t].fd = None /\ g \in Files
    BY <1>3, <2>1 DEF Publish, Regenerations, IInv, TaskTypes
  <2>3. CASE tmp[g] = None
    <3>1. Go(t, Finished(t)) /\ UNCHANGED files  BY <2>1, <2>3 DEF Publish
    <3> QED  BY <1>4, <3>1, FinishedType DEF Go, IInv, TaskTypes
  <2>4. CASE tmp[g] # None
    <3>1. /\ dest' = [dest EXCEPT ![g] = tmp[g]] /\ tmp' = [tmp EXCEPT ![g] = None]
          /\ \A i \in Inodes : content'[i] \in {content[i], None}
      BY <2>1, <2>4 DEF Publish
    <3>2. /\ dest'[g] = tmp[g] /\ tmp'[g] = None
          /\ \A f \in Files \ {g} : dest'[f] = dest[f] /\ tmp'[f] = tmp[f]
      BY <1>3, <2>2, <3>1 DEF FileTypes
    <3>3. /\ \A u \in Tasks \ {t} : task'[u] = task[u]
          /\ task'[t].fd = None
          /\ task'[t].at \in {"create", "write", "publish"} =>
               g = "md" /\ task'[t].times = task[t].times
      <4>1. CASE g = "md"
        <5>1. Go(t, [task[t] EXCEPT !.at = "create", !.file = "jsonl"])
          BY <2>1, <2>4, <4>1 DEF Publish
        <5>2. task' = [task EXCEPT ![t] = [task[t] EXCEPT !.at = "create", !.file = "jsonl"]]
          BY <5>1 DEF Go
        <5>3. task[t] \in Regenerations /\ task \in [Tasks -> Regenerations]
          BY <1>3, <2>1 DEF IInv, TaskTypes
        <5>4. task'[t] = [task[t] EXCEPT !.at = "create", !.file = "jsonl"]
          BY <5>2, <5>3
        <5>5. task'[t].fd = task[t].fd /\ task'[t].times = task[t].times
          BY <5>3, <5>4 DEF Regenerations
        <5> QED  BY <2>2, <4>1, <5>2, <5>3, <5>5
      <4>2. CASE g # "md"
        <5>1. Go(t, Finished(t))  BY <2>1, <2>4, <4>2 DEF Publish
        <5> QED  BY <5>1, FinishedType DEF Go, IInv, TaskTypes
      <4> QED  BY <4>1, <4>2
    <3>4. ReadSpoken'  BY <1>1, <2>2, <3>3 DEF Own, ReadSpoken
    <3>5. OwnFile'
      <4> SUFFICES ASSUME NEW u \in Tasks, NEW f \in Files, task'[u].fd # None,
                          f # task'[u].file
                   PROVE  task'[u].fd \notin {tmp'[f], dest'[f]}
        BY DEF OwnFile
      <4>1. /\ u # t /\ task'[u] = task[u]
            /\ task[u].fd \notin {tmp[f], dest[f]}
        BY <3>3 DEF Own, OwnFile
      <4> QED  BY <3>2, <4>1
    <3>6. OwnText'
      <4> SUFFICES ASSUME NEW f \in Files, NEW i \in {tmp'[f], dest'[f]} \ {None}
                   PROVE  content'[i] \in TextsOf(f, Spoken') \cup {None, Torn}
        BY DEF OwnText
      <4>1. i \in {tmp[f], dest[f]} \ {None}  BY <3>2
      <4>2. i \in Inodes  BY <1>3, <4>1 DEF FileTypes
      <4> QED  BY <1>2, <3>1, <4>1, <4>2 DEF Own, OwnText
    <3> QED  BY <3>4, <3>5, <3>6 DEF Own
  <2> QED  BY <2>3, <2>4
<1> QED
  <2>1. [Next]_vars  OBVIOUS
  <2> QED  BY <1>5, <1>6, <1>7, <1>8, <1>9, <1>10, <2>1 DEF Next, Regenerate

LEMMA OwnInvariant == Spec => []Own
<1>1. IInv /\ Own /\ [Next]_vars => Own'  BY OwnStep
<1> QED  BY <1>1, InitOwn, Inductive, PTL DEF Spec

-----------------------------------------------------------------------------
(* Rows, files and regenerations keep their types, and the events whose    *)
(* audio is still there have the times of the speech in it.                *)
THEOREM TimesFromSpeech == Spec => []TimesRight
<1>1. IInv => TimesRight
  BY DEF IInv, RowTypes, FileTypes, TaskTypes, TimesRight, TypeOK
<1> QED  BY <1>1, Inductive, PTL

(* A reader finds a whole rendering at any moment, through failing steps   *)
(* and crashes, unless two regenerations overlap.                          *)
THEOREM WholeUnlessOverlap == Spec => TornByOverlapOnly
<1>1. IInv /\ [Next]_vars
        => [ \A f \in Files : \/ Shown(f)' \notin {None, Torn}
                              \/ Shown(f)' = Shown(f)
                              \/ \E t \in Tasks : ~task[t].alone ]_vars
  <2> SUFFICES ASSUME IInv, [Next]_vars, \A t \in Tasks : task[t].alone,
                      NEW f \in Files, Shown(f)' # Shown(f)
               PROVE  Shown(f)' \notin {None, Torn}
    OBVIOUS
  <2>1. Shown(f)' = Current(f)  BY OnlyPublished
  <2>2. title \in Titles /\ Canonical \in Stamps  BY CanonicalStamps DEF IInv, RowTypes
  <2> QED  BY <2>1, <2>2, RenderedText DEF Current
<1> QED  BY <1>1, Inductive, PTL DEF Spec, TornByOverlapOnly

(* A regeneration that ran alone to its end has left both files as the     *)
(* database is, whatever it found under their names.                       *)
THEOREM LoneOneHeals == Spec => HealsAlone
<1>1. IInv /\ [Next]_vars
        => [ \A t \in Tasks : LastPublish(t) =>
               \A f \in Files : Shown(f)' = Current(f)' ]_vars
  <2> SUFFICES ASSUME IInv, [Next]_vars, NEW t \in Tasks, LastPublish(t)
               PROVE  \A f \in Files : Shown(f)' = Current(f)'
    OBVIOUS
  <2>1. /\ task[t].at = "publish" /\ task[t].file = "jsonl" /\ Lone(t) /\ dest' # dest
    BY DEF LastPublish, Lone, Running
  <2>2. Holds(t)  BY <2>1 DEF IInv, LoneWorks
  <2>3. PICK u \in Tasks : Publish(u)
    BY <2>1 DEF Next, vars, files, RecordSuccess, Rename, Rebuild, Restamp, ReadTitle,
       ReadEvents, Create, WriteAll, Fail, RemoveAudio, DeleteSessionAudio, Crash, Regenerate
  <2>4. u = t  BY <2>1, <2>3 DEF Publish, Running, IInv, Solitary
  <2>5. /\ dest'["jsonl"] = tmp["jsonl"] /\ content'[tmp["jsonl"]] = content[tmp["jsonl"]]
        /\ dest'["md"] = dest["md"]
        /\ dest["md"] # None => content'[dest["md"]] = content[dest["md"]]
    BY <2>1, <2>2, <2>3, <2>4, PublishedFile DEF Holds, Files
  <2>6. /\ Shown("jsonl")' = Current("jsonl") /\ Shown("md")' = Current("md")
    BY <2>1, <2>2, <2>5 DEF Holds, Shown
  <2>7. \A f \in Files : Current(f)' = Current(f)
    BY <2>3 DEF Publish, database, Current, Canonical
  <2> QED  BY <2>6, <2>7 DEF Files
<1> QED  BY <1>1, Inductive, PTL DEF Spec, HealsAlone

(* A transcript that is replaced by a regeneration that ran alone loses no *)
(* utterance it showed: it had been written from events that are still     *)
(* there.                                                                  *)
THEOREM NothingTakenAway == Spec => ShownStays
<1>1. IInv /\ Own /\ [Next]_vars
        => [ \A t \in Tasks, f \in Files :
               (/\ task[t].at = "publish" /\ task[t].file = f /\ task[t].alone
                /\ dest'[f] # dest[f] /\ Shown(f) \notin {None, Torn})
               => ChunksOf(Shown(f)) \subseteq ChunksOf(Shown(f)') ]_vars
  <2> SUFFICES ASSUME IInv, Own, [Next]_vars, NEW t \in Tasks, NEW f \in Files,
                      task[t].at = "publish", task[t].file = f, task[t].alone,
                      dest'[f] # dest[f], Shown(f) \notin {None, Torn}
               PROVE  ChunksOf(Shown(f)) \subseteq ChunksOf(Shown(f)')
    OBVIOUS
  <2>1. Lone(t) /\ Holds(t)  BY DEF Lone, Running, IInv, LoneWorks
  <2>2. Publish(t)
    <3>1. PICK u \in Tasks : Publish(u)
      BY DEF Next, vars, files, RecordSuccess, Rename, Rebuild, Restamp, ReadTitle,
         ReadEvents, Create, WriteAll, Fail, RemoveAudio, DeleteSessionAudio, Crash, Regenerate
    <3>2. u = t  BY <2>1, <3>1 DEF Publish, Running, IInv, Solitary
    <3> QED  BY <3>1, <3>2
  <2>3. tmp[f] # None /\ content[tmp[f]] = Current(f)  BY <2>1 DEF Holds
  <2>4. Shown(f)' = Current(f)
    <3>1. dest'[f] = tmp[f] /\ content'[tmp[f]] = content[tmp[f]]
      BY <2>2, <2>3, PublishedFile
    <3> QED  BY <2>3, <3>1 DEF Shown
  <2>5. PICK name \in Titles \cup {None}, times \in {x \in Stamps : DOMAIN x \subseteq Spoken} :
          Shown(f) = Render(f, name, times)
    <3>1. Shown(f) \in TextsOf(f, Spoken)  BY DEF Shown, Own, OwnText
    <3> QED  BY <3>1 DEF TextsOf
  <2>6. Canonical \in Stamps /\ DOMAIN Canonical = Spoken
    BY CanonicalStamps DEF IInv, RowTypes, Canonical, Spoken
  <2>7. ChunksOf(Current(f)) = Listed(f, Spoken)
    BY <2>6, RenderedChunks DEF Current
  <2>8. ChunksOf(Shown(f)) = Listed(f, DOMAIN times)  BY <2>5, RenderedChunks
  <2>9. Listed(f, DOMAIN times) \subseteq Listed(f, Spoken)
    BY <2>5, ListedGrows DEF Spoken
  <2> QED  BY <2>4, <2>7, <2>8, <2>9
<1> QED  BY <1>1, Inductive, OwnInvariant, PTL DEF Spec, ShownStays
=============================================================================
