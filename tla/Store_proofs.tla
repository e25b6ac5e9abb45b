----------------------------- MODULE Store_proofs -----------------------------
(* Proofs about the database under its writers, for every value of the     *)
(* constants: any number of processes, builds, documents, chunks and       *)
(* generations, and pages of any size.                                     *)
EXTENDS Store, FiniteSetTheorems, WellFoundedInduction, TLAPS

-----------------------------------------------------------------------------
(* Sets of chunk ids, and the page a rebuild reads.                        *)

\* Among finite sets of a nonempty family one has no proper subset in it.
LEMMA SmallestSet ==
  ASSUME NEW F, NEW family \in SUBSET FiniteSubsetsOf(F), family # {}
  PROVE  \E T \in family : \A U \in family : U \subseteq T => U = T
  <1>1. family \subseteq FiniteSubsetsOf(F) /\ family \subseteq SUBSET F
    BY DEF FiniteSubsetsOf
  <1>2. IsWellFoundedOn(StrictSubsetOrdering(F), FiniteSubsetsOf(F))
    BY FS_StrictSubsetOrderingWellFounded
  <1>3. PICK T \in family : \A U \in family : <<U, T>> \notin StrictSubsetOrdering(F)
    BY <1>1, <1>2, WFMin
  <1>4. ASSUME NEW U \in family, U \subseteq T, U # T
        PROVE  FALSE
    <2>1. U \in SUBSET F /\ T \in SUBSET F
      BY <1>1
    <2>2. <<U, T>> \in StrictSubsetOrdering(F)
      BY <1>4, <2>1 DEF StrictSubsetOrdering
    <2>3. QED
      BY <1>3, <2>2
  <1>5. QED
    BY <1>3, <1>4

\* A nonempty finite set of numbers has a largest and a smallest one.
LEMMA LargestNumber ==
  ASSUME NEW F, IsFiniteSet(F), F \subseteq Nat, F # {}
  PROVE  \E m \in F : \A x \in F : x <= m
  <1> DEFINE above(m) == {e \in F : m < e}
             family == {above(m) : m \in F}
  <1>1. family \subseteq SUBSET F /\ family # {}
    <2>1. PICK m \in F : TRUE
      OBVIOUS
    <2>2. above(m) \in family
      OBVIOUS
    <2>3. \A T \in family : T \subseteq F
      OBVIOUS
    <2>4. QED
      BY <2>2, <2>3
  <1>2. \A T \in family : IsFiniteSet(T)
    BY <1>1, FS_Subset
  <1>3. PICK T \in family : \A U \in family : U \subseteq T => U = T
    <2> HIDE DEF family
    <2>1. family \in SUBSET FiniteSubsetsOf(F)
      BY <1>1, <1>2 DEF FiniteSubsetsOf
    <2>2. family # {}
      BY <1>1
    <2>3. QED
      BY <2>1, <2>2, SmallestSet
  <1>4. PICK m \in F : T = above(m)
    BY <1>3
  <1>5. ASSUME NEW x \in F, ~(x <= m)
        PROVE  FALSE
    <2>1. \A e \in F : e \in Nat
      OBVIOUS
    <2>2. m \in Nat /\ x \in Nat /\ m < x
      BY <1>5, <2>1
    <2>3. \A e \in F : x < e => m < e
      BY <2>1, <2>2
    <2>4. x \in above(m) /\ x \notin above(x)
      BY <2>2
    <2>5. above(x) \subseteq above(m)
      BY <2>3
    <2>6. QED
      BY <1>3, <1>4, <2>4, <2>5
  <1>6. QED
    BY <1>5

LEMMA SmallestNumber ==
  ASSUME NEW F, IsFiniteSet(F), F \subseteq Nat, F # {}
  PROVE  \E m \in F : \A x \in F : m <= x
  <1> DEFINE below(m) == {e \in F : e < m}
             family == {below(m) : m \in F}
  <1>1. family \subseteq SUBSET F /\ family # {}
    <2>1. PICK m \in F : TRUE
      OBVIOUS
    <2>2. below(m) \in family
      OBVIOUS
    <2>3. \A T \in family : T \subseteq F
      OBVIOUS
    <2>4. QED
      BY <2>2, <2>3
  <1>2. \A T \in family : IsFiniteSet(T)
    BY <1>1, FS_Subset
  <1>3. PICK T \in family : \A U \in family : U \subseteq T => U = T
    <2> HIDE DEF family
    <2>1. family \in SUBSET FiniteSubsetsOf(F)
      BY <1>1, <1>2 DEF FiniteSubsetsOf
    <2>2. family # {}
      BY <1>1
    <2>3. QED
      BY <2>1, <2>2, SmallestSet
  <1>4. PICK m \in F : T = below(m)
    BY <1>3
  <1>5. ASSUME NEW x \in F, ~(m <= x)
        PROVE  FALSE
    <2>1. \A e \in F : e \in Nat
      OBVIOUS
    <2>2. m \in Nat /\ x \in Nat /\ x < m
      BY <1>5, <2>1
    <2>3. \A e \in F : e < x => e < m
      BY <2>1, <2>2
    <2>4. x \in below(m) /\ x \notin below(x)
      BY <2>2
    <2>5. below(x) \subseteq below(m)
      BY <2>3
    <2>6. QED
      BY <1>3, <1>4, <2>4, <2>5
  <1>6. QED
    BY <1>5

\* The first n of a finite set: some of it when there is any, at most n, and
\* everything that comes before one of them.
LEMMA FirstOfSet ==
  ASSUME NEW S, IsFiniteSet(S), S \subseteq Nat, NEW n \in Nat \ {0}
  PROVE  /\ FirstOf(S, n) \subseteq S /\ IsFiniteSet(FirstOf(S, n))
         /\ S # {} => FirstOf(S, n) # {}
         /\ Cardinality(FirstOf(S, n)) <= n
         /\ \A c \in S, e \in FirstOf(S, n) : c <= e => c \in FirstOf(S, n)
  <1> DEFINE below(m) == {e \in S : e < m}
             page == FirstOf(S, n)
  <1>0. /\ page \subseteq S /\ IsFiniteSet(page)
        /\ \A c \in S : IsFiniteSet(below(c)) /\ Cardinality(below(c)) \in Nat
        /\ \A c \in S : c \in page <=> Cardinality(below(c)) < n
    <2>1. page \subseteq S
      BY DEF FirstOf
    <2>2. \A c \in S : IsFiniteSet(below(c))
      <3>1. \A c \in S : below(c) \in SUBSET S
        OBVIOUS
      <3>2. QED
        BY <3>1, FS_Subset
    <2>3. \A c \in S : c \in page <=> Cardinality(below(c)) < n
      BY DEF FirstOf
    <2>4. QED
      BY <2>1, <2>2, <2>3, FS_Subset, FS_CardinalityType
  <1>1. ASSUME S # {} PROVE page # {}
    <2>1. PICK m \in S : \A x \in S : m <= x
      BY <1>1, SmallestNumber
    <2>2. below(m) = {}
      <3>1. \A x \in S : x \in Nat /\ m \in Nat /\ m <= x
        BY <2>1
      <3>2. \A x \in S : ~(x < m)
        BY <3>1
      <3>3. QED
        BY <3>2
    <2>3. Cardinality(below(m)) = 0
      BY <2>2, FS_EmptySet
    <2>4. QED
      BY <1>0, <2>3
  <1>2. ASSUME NEW c \in S, NEW e \in page, c <= e
        PROVE  c \in page
    <2>1. e \in S /\ Cardinality(below(e)) < n
      BY <1>0
    <2>2. below(c) \in SUBSET below(e)
      <3>1. c \in Nat /\ e \in Nat /\ \A x \in S : x \in Nat
        BY <2>1
      <3>2. \A x \in S : x < c => x < e
        BY <1>2, <3>1
      <3>3. QED
        BY <3>2
    <2>3. Cardinality(below(c)) <= Cardinality(below(e))
      BY <1>0, <2>1, <2>2, FS_Subset
    <2>4. Cardinality(below(c)) < n
      BY <1>0, <2>1, <2>3
    <2>5. QED
      BY <1>0, <2>4
  <1>3. Cardinality(page) <= n
    <2>1. CASE page = {}
      BY <2>1, FS_EmptySet
    <2>2. CASE page # {}
      <3>1. page \subseteq Nat
        BY <1>0
      <3>2. PICK m \in page : \A x \in page : x <= m
        BY <1>0, <2>2, <3>1, LargestNumber
      <3>3. m \in S /\ Cardinality(below(m)) < n /\ Cardinality(below(m)) \in Nat
            /\ IsFiniteSet(below(m))
        BY <1>0
      <3>4. page \in SUBSET (below(m) \cup {m})
        BY <1>0, <3>1, <3>2
      <3>5. /\ IsFiniteSet(below(m) \cup {m})
            /\ Cardinality(below(m) \cup {m}) = Cardinality(below(m)) + 1
        <4>1. m \notin below(m)
          BY <3>1
        <4>2. QED
          BY <3>3, <4>1, FS_AddElement
      <3>6. Cardinality(page) <= Cardinality(below(m)) + 1
        BY <3>4, <3>5, FS_Subset
      <3>7. Cardinality(page) \in Nat
        BY <1>0, FS_CardinalityType
      <3>8. QED
        BY <3>3, <3>6, <3>7
    <2>3. QED
      BY <2>1, <2>2
  <1>4. QED
    BY <1>0, <1>1, <1>2, <1>3

USE StoreAssumption

\* What is stored at any time is finitely many chunks.
LEMMA FiniteChunks ==
  ASSUME NEW table \in [Docs -> Versions \cup {NoDoc}]
  PROVE  IsFiniteSet(ChunksIn(table)) /\ ChunksIn(table) \subseteq Nat \ {0}
  <1> DEFINE stored == {e \in Docs : table[e] # NoDoc}
             f == [d \in stored |-> ChunksOf[d][table[d]]]
             parts == {ChunksOf[d][table[d]] : d \in stored}
  <1>1. \A d \in stored : d \in Docs /\ table[d] \in Versions
    OBVIOUS
  <1>2. IsFiniteSet(stored)
    BY FS_Subset
  <1>3. f \in Surjection(stored, parts)
    BY DEF Surjection
  <1>4. IsFiniteSet(parts)
    BY <1>2, <1>3, FS_Surjection
  <1>5. \A part \in parts : IsFiniteSet(part) /\ part \subseteq Nat \ {0}
    BY <1>1
  <1>6. IsFiniteSet(UNION parts) /\ UNION parts \subseteq Nat \ {0}
    BY <1>4, <1>5, FS_UNION
  <1>7. QED
    BY <1>6 DEF ChunksIn

-----------------------------------------------------------------------------
(* Type correctness.                                                       *)

Places == {"idle", "locking", "opening", "open", "checking", "ingesting", "replacing",
           "rebuilding", "fetching", "embedding", "activating"}
Building == {"fetching", "embedding", "activating"}
Locals == [at : Places, name : Paths \cup {None}, gen : Gens \cup {0}, cursor : Nat,
           batch : SUBSET Nat, doc : Docs \cup {None}, version : Versions \cup {NoDoc}]

\* The locals that a place of the code has set.
Placed == {r \in Locals :
             /\ r.at # "idle" => r.name \in Paths
             /\ r.at = "replacing" => r.gen \in Gens /\ r.doc \in Docs /\ r.version \in Versions
             /\ r.at \in Building => r.gen \in Gens}

Generations == [status : {"active", "building"}, model : Keys] \cup {NoGen}

TypeTables ==
  /\ docs \in [Docs -> Versions \cup {NoDoc}]
  /\ gens \in [Gens -> Generations]
  /\ records \subseteq Records /\ vectors \subseteq Records

TypeOK ==
  /\ created \in BOOLEAN /\ aliased \in BOOLEAN
  /\ locks \in [Paths -> Procs \cup {None}]
  /\ TypeTables
  /\ proc \in [Procs -> Placed]
  /\ search \in [Searchers -> {"none", "dense", "lexical"}]
  /\ compared \in [Searchers -> SUBSET Keys]

LEMMA IdlePlaced ==
  /\ Idle \in Placed /\ Idle.at = "idle"
  /\ \A n \in Paths : /\ [Idle EXCEPT !.at = "locking", !.name = n] \in Placed
                      /\ [Idle EXCEPT !.at = "ingesting", !.name = n] \in Placed
  BY DEF Idle, Placed, Locals, Places, Building

LEMMA Moving ==
  ASSUME proc \in [Procs -> Placed], NEW p \in Procs, NEW r \in Placed,
         proc' = [proc EXCEPT ![p] = r]
  PROVE  proc' \in [Procs -> Placed]
  OBVIOUS

\* A process goes on with the same locals, where they are what its place needs.
LEMMA Going ==
  ASSUME proc \in [Procs -> Placed], NEW p \in Procs, ~At(p, "idle"),
         NEW place \in {"opening", "open", "checking", "ingesting", "rebuilding"},
         Goto(p, place)
  PROVE  proc' \in [Procs -> Placed]
  <1> DEFINE r == [proc[p] EXCEPT !.at = place]
  <1>1. proc[p] \in Placed /\ proc[p].at # "idle"
    BY DEF At
  <1>2. r \in Placed
    BY <1>1 DEF Placed, Locals, Places, Building
  <1>3. proc' = [proc EXCEPT ![p] = r]
    BY DEF Goto
  <1>4. QED
    BY <1>2, <1>3, Moving

LEMMA Exiting ==
  ASSUME proc \in [Procs -> Placed], locks \in [Paths -> Procs \cup {None}],
         NEW p \in Procs, Exit(p)
  PROVE  proc' \in [Procs -> Placed] /\ locks' \in [Paths -> Procs \cup {None}]
  BY IdlePlaced, Moving DEF Exit

LEMMA VectorsAreRecords ==
  ASSUME NEW chunks \in SUBSET Nat, NEW g \in Gens, NEW key \in Keys
  PROVE  Vectors(chunks, g, key) \subseteq Records
  BY DEF Vectors, Records

\* A version's chunks, and those of a stored document, are ids.
LEMMA ChunksAreIds ==
  /\ \A d \in Docs, v \in Versions : ChunksOf[d][v] \subseteq Nat
  /\ TypeTables => Chunks \subseteq Nat /\ IsFiniteSet(Chunks)
  BY FiniteChunks DEF TypeTables, Chunks

LEMMA InitType == Init => TypeOK
  <1> SUFFICES ASSUME Init PROVE TypeOK
    OBVIOUS
  <1> USE DEF Init
  <1>1. proc \in [Procs -> Placed]
    BY IdlePlaced
  <1>2. TypeTables
    BY DEF TypeTables, Generations
  <1>3. search \in [Searchers -> {"none", "dense", "lexical"}] /\ compared \in [Searchers -> SUBSET Keys]
    OBVIOUS
  <1>4. locks \in [Paths -> Procs \cup {None}] /\ created \in BOOLEAN /\ aliased \in BOOLEAN
    OBVIOUS
  <1>5. QED
    BY <1>1, <1>2, <1>3, <1>4 DEF TypeOK

LEMMA LockingType ==
  ASSUME TypeOK, NEW p \in Procs,
         \/ Resolve(p)
         \/ (Lock(p) \/ LockTimeout(p) \/ Open(p) \/ Migrate(p) \/ Crash(p)) /\ UNCHANGED aliased,
         UNCHANGED reading
  PROVE  TypeOK'
  <1> USE DEF TypeOK, reading, TypeTables
  <1>1. CASE Resolve(p)
    <2>1. LockName(p) \in Paths
      BY DEF LockName
    <2>2. proc' \in [Procs -> Placed]
      BY <1>1, <2>1, IdlePlaced, Moving DEF Resolve
    <2>3. QED
      BY <1>1, <2>2 DEF Resolve
  <1>2. CASE Lock(p) /\ UNCHANGED aliased
    <2>1. proc[p].name \in Paths
      BY <1>2 DEF Lock, At, Placed
    <2>2. proc' \in [Procs -> Placed]
      BY <1>2, Going DEF Lock, At
    <2>3. QED
      BY <1>2, <2>1, <2>2 DEF Lock
  <1>3. CASE LockTimeout(p) /\ UNCHANGED aliased
    <2>1. proc' \in [Procs -> Placed]
      BY <1>3, IdlePlaced, Moving DEF LockTimeout
    <2>2. QED
      BY <1>3, <2>1 DEF LockTimeout
  <1>4. CASE Open(p) /\ UNCHANGED aliased
    <2>1. proc' \in [Procs -> Placed]
      BY <1>4, Going DEF Open, At
    <2>2. QED
      BY <1>4, <2>1 DEF Open
  <1>5. CASE (Migrate(p) \/ Crash(p)) /\ UNCHANGED aliased
    BY <1>5, Exiting DEF Migrate, Crash, Refuse
  <1>6. QED
    BY <1>1, <1>2, <1>3, <1>4, <1>5

LEMMA IngestType ==
  ASSUME TypeOK, NEW p \in Procs,
         \/ StartIngest(p) \/ CheckModel(p)
         \/ \E d \in Docs, v \in Versions : BeginReplace(p, d, v)
         \/ Replace(p) \/ ReplaceRejected(p) \/ Prune(p) \/ EndIngest(p) \/ Remove(p),
         UNCHANGED aliased, UNCHANGED reading
  PROVE  TypeOK'
  <1> USE DEF TypeOK, reading, TypeTables
  <1> DEFINE Stored == {d \in Docs : docs[d] # NoDoc}
  <1>1. ASSUME NEW command \in {"checking", "rebuilding"}, RegisterModel(p, command)
        PROVE  TypeOK'
    <2>1. gens' \in [Gens -> Generations]
      BY <1>1 DEF RegisterModel, Generations
    <2>2. proc' \in [Procs -> Placed]
      BY <1>1, Going DEF RegisterModel, At
    <2>3. QED
      BY <1>1, <2>1, <2>2 DEF RegisterModel
  <1>2. CASE CheckModel(p)
    <2>1. CASE Refuse(p)
      BY <2>1, Exiting DEF Refuse
    <2>2. CASE Goto(p, "ingesting") /\ UNCHANGED <<created, locks, docs, gens, records, vectors>>
      <3>1. proc' \in [Procs -> Placed]
        BY <1>2, <2>2, Going DEF CheckModel, At
      <3>2. QED
        BY <2>2, <3>1
    <2>3. QED
      BY <1>2, <2>1, <2>2 DEF CheckModel
  <1>3. ASSUME NEW d \in Docs, NEW v \in Versions, BeginReplace(p, d, v)
        PROVE  TypeOK'
    <2>0. PICK g \in Active :
            proc' = [proc EXCEPT ![p].at = "replacing", ![p].gen = g, ![p].doc = d, ![p].version = v]
      BY <1>3 DEF BeginReplace
    <2>1. proc' = [proc EXCEPT ![p] =
              [proc[p] EXCEPT !.at = "replacing", !.gen = g, !.doc = d, !.version = v]]
      BY <2>0
    <2>2. proc[p] \in Placed /\ proc[p].at = "ingesting" /\ g \in Gens
      BY <1>3 DEF BeginReplace, At, Active
    <2>3. [proc[p] EXCEPT !.at = "replacing", !.gen = g, !.doc = d, !.version = v] \in Placed
      BY <2>2 DEF Placed, Locals, Places, Building
    <2>4. proc' \in [Procs -> Placed]
      BY <2>1, <2>3, Moving
    <2>5. QED
      BY <1>3, <2>4 DEF BeginReplace
  <1>4. CASE Replace(p)
    <2>1. /\ proc[p] \in Placed /\ proc[p].at = "replacing"
          /\ proc[p].gen \in Gens /\ proc[p].doc \in Docs /\ proc[p].version \in Versions
          /\ proc[p].name \in Paths
      BY <1>4 DEF Replace, At, Placed
    <2>2. proc' \in [Procs -> Placed]
      BY <1>4, <2>1, IdlePlaced, Moving DEF Replace
    <2>3. Vectors(ChunksOf[proc[p].doc][proc[p].version], proc[p].gen, KeyOf[p]) \subseteq Records
      BY <2>1, ChunksAreIds, VectorsAreRecords
    <2>4. records' \subseteq Records /\ vectors' \subseteq Records
      BY <1>4, <2>3 DEF Replace, Without, Fired
    <2>5. docs' \in [Docs -> Versions \cup {NoDoc}]
      BY <1>4, <2>1 DEF Replace
    <2>6. QED
      BY <1>4, <2>2, <2>4, <2>5 DEF Replace
  <1>5. CASE ReplaceRejected(p) \/ EndIngest(p)
    BY <1>5, Exiting DEF ReplaceRejected, EndIngest, Refuse
  <1>6. ASSUME NEW gone \in SUBSET Stored, Drop(gone)
        PROVE  /\ docs' \in [Docs -> Versions \cup {NoDoc}]
               /\ records' \subseteq Records /\ vectors' \subseteq Records
    BY <1>6 DEF Drop, Without, Fired
  <1>7. CASE Prune(p)
    BY <1>6, <1>7 DEF Prune
  <1>8. CASE Remove(p)
    BY <1>6, <1>8, Exiting DEF Remove
  <1>9. QED
    BY <1>1, <1>2, <1>3, <1>4, <1>5, <1>7, <1>8 DEF StartIngest

\* The page a rebuild reads consists of chunks.
LEMMA PagesAreChunks ==
  ASSUME TypeTables, NEW g, NEW cursor
  PROVE  /\ Pending(g, cursor) \subseteq Chunks /\ Pending(g, cursor) \subseteq Nat
         /\ IsFiniteSet(Pending(g, cursor))
         /\ FirstOf(Pending(g, cursor), Batch) \subseteq Nat
  <1>1. Pending(g, cursor) \subseteq Chunks
    BY DEF Pending
  <1>2. FirstOf(Pending(g, cursor), Batch) \subseteq Pending(g, cursor)
    BY DEF FirstOf
  <1>3. QED
    BY <1>1, <1>2, ChunksAreIds, FS_Subset

LEMMA RebuildType ==
  ASSUME TypeOK, NEW p \in Procs,
         \/ StartRebuild(p) \/ ChooseGeneration(p) \/ RefuseRebuild(p) \/ Fetch(p)
         \/ EmbedFails(p) \/ WriteVectors(p) \/ WriteRejected(p)
         \/ Activate(p) \/ ActivateRefused(p),
         UNCHANGED aliased, UNCHANGED reading
  PROVE  TypeOK'
  <1> USE DEF TypeOK, reading, TypeTables
  <1>1. CASE StartRebuild(p)
    <2>1. gens' \in [Gens -> Generations]
      BY <1>1 DEF StartRebuild, RegisterModel, Generations
    <2>2. proc' \in [Procs -> Placed]
      BY <1>1, Going DEF StartRebuild, RegisterModel, At
    <2>3. QED
      BY <1>1, <2>1, <2>2 DEF StartRebuild, RegisterModel
  <1>2. CASE ChooseGeneration(p)
    <2>0. PICK g \in Gens :
            /\ UNCHANGED gens \/ gens' = [gens EXCEPT ![g] = [status |-> "building", model |-> KeyOf[p]]]
            /\ proc' = [proc EXCEPT ![p].at = "fetching", ![p].gen = g, ![p].cursor = 0]
      BY <1>2 DEF ChooseGeneration
    <2>1. proc' = [proc EXCEPT ![p] =
                    [proc[p] EXCEPT !.at = "fetching", !.gen = g, !.cursor = 0]]
      BY <2>0
    <2>2. proc[p] \in Placed /\ proc[p].at = "rebuilding"
      BY <1>2 DEF ChooseGeneration, At
    <2>3. [proc[p] EXCEPT !.at = "fetching", !.gen = g, !.cursor = 0] \in Placed
      BY <2>2 DEF Placed, Locals, Places, Building
    <2>4. proc' \in [Procs -> Placed]
      BY <2>1, <2>3, Moving
    <2>5. gens' \in [Gens -> Generations]
      BY <2>0 DEF Generations
    <2>6. QED
      BY <1>2, <2>4, <2>5 DEF ChooseGeneration
  <1>3. CASE Fetch(p)
    <2> DEFINE page == Pending(proc[p].gen, proc[p].cursor)
               place == IF page = {} THEN "activating" ELSE "embedding"
               batch == FirstOf(page, Batch)
    <2>1. proc' = [proc EXCEPT ![p] = [proc[p] EXCEPT !.at = place, !.batch = batch]]
      BY <1>3 DEF Fetch
    <2>2. proc[p] \in Placed /\ proc[p].at = "fetching" /\ place \in {"activating", "embedding"}
      BY <1>3 DEF Fetch, At
    <2>3. batch \in SUBSET Nat
      BY PagesAreChunks
    <2> HIDE DEF place, batch
    <2>4. [proc[p] EXCEPT !.at = place, !.batch = batch] \in Placed
      BY <2>2, <2>3 DEF Placed, Locals, Places, Building
    <2>5. proc' \in [Procs -> Placed]
      BY <2>1, <2>4, Moving
    <2>6. QED
      BY <1>3, <2>5 DEF Fetch
  <1>4. CASE WriteVectors(p)
    <2>1. PICK last \in proc[p].batch :
            proc' = [proc EXCEPT ![p] =
              [proc[p] EXCEPT !.at = "fetching", !.cursor = last, !.batch = {}]]
      BY <1>4 DEF WriteVectors
    <2>2. proc[p] \in Placed /\ proc[p].at = "embedding"
      BY <1>4 DEF WriteVectors, At
    <2>3. proc[p].batch \in SUBSET Nat /\ proc[p].gen \in Gens /\ last \in Nat
      BY <2>1, <2>2 DEF Placed, Locals, Building
    <2>4. [proc[p] EXCEPT !.at = "fetching", !.cursor = last, !.batch = {}] \in Placed
      BY <2>2, <2>3 DEF Placed, Locals, Places, Building
    <2>5. proc' \in [Procs -> Placed]
      BY <2>1, <2>4, Moving
    <2>6. Vectors(proc[p].batch, proc[p].gen, KeyOf[p]) \subseteq Records
      BY <2>3, VectorsAreRecords
    <2>7. QED
      BY <1>4, <2>5, <2>6 DEF WriteVectors
  <1>5. CASE Activate(p)
    <2> DEFINE g == proc[p].gen
    <2>1. proc[p] \in Placed /\ proc[p].at = "activating" /\ gens[g].status = "building"
      BY <1>5 DEF Activate, Activatable, At
    <2>2. g \in Gens
      BY <2>1 DEF Placed, Building
    <2>3. gens[g] \in [status : {"active", "building"}, model : Keys]
      BY <2>1, <2>2 DEF Generations, NoGen
    <2>4. [gens[g] EXCEPT !.status = "active"] \in Generations
      BY <2>3 DEF Generations
    <2>5. gens' = [h \in Gens |-> IF h = g THEN [gens[g] EXCEPT !.status = "active"]
                                  ELSE IF h \in Active THEN NoGen ELSE gens[h]]
      BY <1>5 DEF Activate
    <2>6. NoGen \in Generations
      BY DEF Generations
    <2> HIDE DEF g
    <2>7. gens' \in [Gens -> Generations]
      BY <2>4, <2>5, <2>6
    <2>8. records' \subseteq Records /\ vectors' \subseteq Records
      BY <1>5 DEF Activate, Fired
    <2>9. QED
      BY <1>5, <2>7, <2>8, Exiting DEF Activate
  <1>6. CASE RefuseRebuild(p) \/ EmbedFails(p) \/ WriteRejected(p) \/ ActivateRefused(p)
    BY <1>6, Exiting DEF RefuseRebuild, EmbedFails, WriteRejected, ActivateRefused, Refuse
  <1>7. QED
    BY <1>1, <1>2, <1>3, <1>4, <1>5, <1>6

\* Models compared with a query are those of records.
LEMMA ReadType ==
  ASSUME TypeOK, NEW s \in Searchers, Read(s)
  PROVE  TypeOK'
  <1> USE DEF TypeOK, TypeTables
  <1>1. ASSUME NEW mode \in {"dense", "lexical"}, BeginSearch(s, mode)
        PROVE  TypeOK'
    BY <1>1 DEF BeginSearch
  <1>2. CASE SearchFails(s)
    BY <1>2 DEF SearchFails
  <1>3. CASE EndSearch(s)
    <2>1. {v.model : v \in Neighbours} \subseteq Keys
      BY DEF Neighbours, Records
    <2>2. compared' \in [Searchers -> SUBSET Keys]
      BY <1>3, <2>1 DEF EndSearch
    <2>3. QED
      BY <1>3, <2>2 DEF EndSearch
  <1>4. QED
    BY <1>1, <1>2, <1>3 DEF Read

\* Every step keeps the types.
LEMMA StepType == TypeOK /\ [Next]_vars => TypeOK'
  <1> SUFFICES ASSUME TypeOK, [Next]_vars PROVE TypeOK'
    OBVIOUS
  <1>1. ASSUME NEW p \in Procs, Step(p) PROVE TypeOK'
    BY <1>1, LockingType, IngestType, RebuildType DEF Step, Work
  <1>2. ASSUME NEW s \in Searchers, Read(s) PROVE TypeOK'
    BY <1>2, ReadType
  <1>3. CASE UNCHANGED vars
    BY <1>3 DEF vars, TypeOK, TypeTables
  <1>4. QED
    BY <1>1, <1>2, <1>3 DEF Next

-----------------------------------------------------------------------------
(* The inductive invariant.                                                *)

OneActive == \A g, h \in Active : g = h

\* Whoever holds, holds the lock of the canonical name.
Locked(p) ==
  /\ ~At(p, "idle") => proc[p].name = Real
  /\ Holding(p) => locks[Real] = p

\* What a process knows of the active generation, where it is.
KnowsActive(p) ==
  /\ proc[p].at \in {"checking", "ingesting", "replacing", "rebuilding"} => Active # {}
  /\ proc[p].at \in {"ingesting", "replacing"} => IngestAccepted(p)
  /\ At(p, "replacing") => proc[p].gen \in Active

\* What a rebuild knows of the generation it fills.
Filled(g, cursor) == \A c \in Chunks : c <= cursor => c \in Embedded(g)
Page(p) == Pending(proc[p].gen, proc[p].cursor)

KnowsBuilding(p) ==
  /\ proc[p].at \in Building =>
       /\ gens[proc[p].gen] = [status |-> "building", model |-> KeyOf[p]]
       /\ Filled(proc[p].gen, proc[p].cursor)
  /\ At(p, "embedding") => Page(p) # {} /\ proc[p].batch = FirstOf(Page(p), Batch)
  /\ At(p, "activating") => Covered(proc[p].gen)

Known == \A p \in Procs : Locked(p) /\ KnowsActive(p) /\ KnowsBuilding(p)
Covering == Chunks # {} => \E g \in Active : Covered(g)

IInv ==
  /\ TypeOK /\ OneActive /\ NoOrphans
  /\ ~aliased => Known /\ Covering
  /\ ModelsUnmixed /\ SearchComparesOwnModel

-----------------------------------------------------------------------------
(* What is in the tables, now and after a step.                            *)

LEMMA InChunks ==
  ASSUME NEW table, NEW c
  PROVE  c \in ChunksIn(table) <=>
           \E d \in Docs : table[d] # NoDoc /\ c \in ChunksOf[d][table[d]]
  BY DEF ChunksIn

LEMMA InEmbedded ==
  ASSUME NEW g, NEW c
  PROVE  /\ c \in Embedded(g) <=> \E r \in records : r.gen = g /\ r.chunk = c
         /\ c \in Embedded(g)' <=> \E r \in records' : r.gen = g /\ r.chunk = c
  BY DEF Embedded

LEMMA InVectors ==
  ASSUME NEW chunks, NEW g, NEW key, NEW r
  PROVE  r \in Vectors(chunks, g, key) <=>
           \E c \in chunks : r = [chunk |-> c, gen |-> g, model |-> key]
  BY DEF Vectors

\* No generation has an id above the largest, so the next id is free.
LEMMA NextIdIsFree ==
  ASSUME TypeTables, NEW g \in Gens, NextId(g)
  PROVE  gens[g] = NoGen
  BY DEF NextId, Above, Gens

\* The tables are touched by a process that holds, and by no other.
LEMMA Frame ==
  ASSUME TypeOK, NEW p \in Procs, Step(p)
  PROVE  /\ \A q \in Procs : q # p => /\ proc'[q] = proc[q]
                                      /\ \A n \in Paths : locks[n] = q => locks'[n] = q
         /\ ~Holding(p) => UNCHANGED <<docs, gens, records, vectors>>
         /\ aliased => aliased'
         /\ UNCHANGED reading
  <1> USE DEF TypeOK
  <1>1. UNCHANGED reading /\ (aliased => aliased')
    BY DEF Step, Resolve
  <1>2. ASSUME Exit(p) PROVE \A q \in Procs : q # p =>
           proc'[q] = proc[q] /\ \A n \in Paths : locks[n] = q => locks'[n] = q
    BY <1>2 DEF Exit
  <1>3. CASE Resolve(p)
    BY <1>1, <1>3 DEF Resolve, LockName
  <1>4. CASE Lock(p) \/ LockTimeout(p) \/ Open(p) \/ Migrate(p) \/ Crash(p)
    <2>1. CASE Lock(p)
      BY <1>1, <2>1 DEF Lock, Goto
    <2>2. CASE LockTimeout(p) \/ Open(p)
      BY <1>1, <2>2 DEF LockTimeout, Open, Goto
    <2>3. CASE Migrate(p) \/ Crash(p)
      BY <1>1, <1>2, <2>3 DEF Migrate, Crash, Refuse
    <2>4. QED
      BY <1>4, <2>1, <2>2, <2>3
  <1>5. CASE StartIngest(p) \/ StartRebuild(p)
    BY <1>1, <1>5 DEF StartIngest, StartRebuild, RegisterModel, Goto, At, Holding
  <1>6. CASE CheckModel(p) \/ ReplaceRejected(p) \/ EndIngest(p) \/ RefuseRebuild(p)
             \/ EmbedFails(p) \/ WriteRejected(p) \/ ActivateRefused(p)
    BY <1>1, <1>2, <1>6 DEF CheckModel, ReplaceRejected, EndIngest, RefuseRebuild, EmbedFails,
         WriteRejected, ActivateRefused, Refuse, Goto
  <1>7. CASE \E d \in Docs, v \in Versions : BeginReplace(p, d, v)
    BY <1>1, <1>7 DEF BeginReplace
  <1>8. CASE Replace(p) \/ Prune(p)
    BY <1>1, <1>8 DEF Replace, Prune, At, Holding
  <1>9. CASE ChooseGeneration(p) \/ Fetch(p) \/ WriteVectors(p)
    BY <1>1, <1>9 DEF ChooseGeneration, Fetch, WriteVectors, At, Holding
  <1>10. CASE Remove(p) \/ Activate(p)
    BY <1>1, <1>2, <1>10 DEF Remove, Activate, At, Holding
  <1>11. QED
    BY <1>3, <1>4, <1>5, <1>6, <1>7, <1>8, <1>9, <1>10 DEF Step, Work

\* Where a step of a process leads it.
LEMMA Moves ==
  ASSUME TypeOK, NEW p \in Procs, Step(p)
  PROVE  /\ proc'[p].name = proc[p].name \/ At(p, "idle")
              \/ At(p, "idle")'
         /\ (Holding(p)' /\ ~Holding(p) => Lock(p))
         /\ Holding(p)' => \A n \in Paths : locks[n] = p => locks'[n] = p
  <1> USE DEF TypeOK
  <1>1. CASE Exit(p)
    BY <1>1, IdlePlaced DEF Exit, At, Holding
  <1>2. CASE Resolve(p)
    BY <1>2, IdlePlaced DEF Resolve, At, Holding, Idle
  <1>3. CASE Lock(p)
    BY <1>3 DEF Lock, Goto, At, Holding, Placed, Locals
  <1>4. CASE LockTimeout(p)
    BY <1>4, IdlePlaced DEF LockTimeout, At, Holding
  <1>5. CASE Open(p) \/ StartIngest(p) \/ StartRebuild(p) \/ (CheckModel(p) /\ ~Refuse(p))
    BY <1>5 DEF Open, StartIngest, StartRebuild, RegisterModel, CheckModel, Goto, At, Holding,
                Placed, Locals
  <1>6. CASE \E d \in Docs, v \in Versions : BeginReplace(p, d, v)
    BY <1>6 DEF BeginReplace, At, Holding, Placed, Locals
  <1>7. CASE Replace(p)
    BY <1>7 DEF Replace, At, Holding, Placed, Locals, Idle
  <1>8. CASE Prune(p)
    BY <1>8 DEF Prune, At, Holding
  <1>9. CASE ChooseGeneration(p) \/ Fetch(p) \/ WriteVectors(p)
    <2>1. Holding(p) /\ UNCHANGED locks
      BY <1>9 DEF ChooseGeneration, Fetch, WriteVectors, At, Holding
    <2>2. proc'[p].name = proc[p].name
      <3>1. CASE ChooseGeneration(p)
        BY <3>1 DEF ChooseGeneration
      <3>2. CASE Fetch(p)
        BY <3>2 DEF Fetch
      <3>3. CASE WriteVectors(p)
        BY <3>3 DEF WriteVectors
      <3>4. QED
        BY <1>9, <3>1, <3>2, <3>3
    <2>3. QED
      BY <2>1, <2>2
  <1>10. QED
    BY <1>1, <1>2, <1>3, <1>4, <1>5, <1>6, <1>7, <1>8, <1>9
    DEF Step, Work, Migrate, Crash, ReplaceRejected, EndIngest, RefuseRebuild, EmbedFails,
        WriteRejected, ActivateRefused, Remove, Activate, Refuse

\* The ways in which a step changes the tables.
NewGeneration(p, status) ==
  /\ \E g \in Gens : /\ gens[g] = NoGen
                     /\ gens' = [gens EXCEPT ![g] = [status |-> status, model |-> KeyOf[p]]]
  /\ UNCHANGED <<docs, records, vectors>>

LEMMA TableSteps ==
  ASSUME TypeOK, NEW p \in Procs, Step(p)
  PROVE  \/ UNCHANGED <<docs, gens, records, vectors>>
         \/ Active = {} /\ NewGeneration(p, "active")
         \/ NewGeneration(p, "building")
         \/ Replace(p)
         \/ \E gone \in SUBSET Docs : Drop(gone) /\ UNCHANGED gens
         \/ WriteVectors(p)
         \/ Activate(p)
  <1> USE DEF TypeOK
  <1>1. CASE StartIngest(p) \/ StartRebuild(p)
    BY <1>1, NextIdIsFree DEF StartIngest, StartRebuild, RegisterModel, NewGeneration
  <1>2. CASE ChooseGeneration(p)
    BY <1>2, NextIdIsFree DEF ChooseGeneration, NewGeneration
  <1>3. CASE Prune(p) \/ Remove(p)
    BY <1>3 DEF Prune, Remove
  <1>4. CASE Resolve(p) \/ Lock(p) \/ LockTimeout(p) \/ Open(p) \/ Fetch(p)
    BY <1>4 DEF Resolve, Lock, LockTimeout, Open, Fetch
  <1>5. CASE Migrate(p) \/ Crash(p) \/ CheckModel(p) \/ ReplaceRejected(p) \/ EndIngest(p)
             \/ RefuseRebuild(p) \/ EmbedFails(p) \/ WriteRejected(p) \/ ActivateRefused(p)
    BY <1>5 DEF Migrate, Crash, CheckModel, ReplaceRejected, EndIngest, RefuseRebuild,
                EmbedFails, WriteRejected, ActivateRefused, Refuse
  <1>6. CASE \E d \in Docs, v \in Versions : BeginReplace(p, d, v)
    BY <1>6 DEF BeginReplace
  <1>7. QED
    BY <1>1, <1>2, <1>3, <1>4, <1>5, <1>6 DEF Step, Work

\* Which generations are active afterwards.
LEMMA ActiveAfter ==
  ASSUME TypeOK, NEW p \in Procs
  PROVE  /\ UNCHANGED gens => Active' = Active
         /\ NewGeneration(p, "building") => Active' = Active
         /\ Active = {} /\ NewGeneration(p, "active") =>
              \E g \in Gens : gens'[g] = [status |-> "active", model |-> KeyOf[p]] /\ Active' = {g}
         /\ Activate(p) => /\ proc[p].gen \in Gens \ Active
                           /\ Active' = {proc[p].gen}
                           /\ gens'[proc[p].gen] = [gens[proc[p].gen] EXCEPT !.status = "active"]
  <1> USE DEF TypeOK, TypeTables, Active
  <1>1. UNCHANGED gens => Active' = Active
    OBVIOUS
  <1>2. ASSUME NewGeneration(p, "building") PROVE Active' = Active
    BY <1>2 DEF NewGeneration, NoGen
  <1>3. ASSUME Active = {}, NewGeneration(p, "active")
        PROVE  \E g \in Gens : gens'[g] = [status |-> "active", model |-> KeyOf[p]] /\ Active' = {g}
    BY <1>3 DEF NewGeneration, NoGen
  <1>4. ASSUME Activate(p)
        PROVE  /\ proc[p].gen \in Gens \ Active
               /\ Active' = {proc[p].gen}
               /\ gens'[proc[p].gen] = [gens[proc[p].gen] EXCEPT !.status = "active"]
    <2> DEFINE g == proc[p].gen
    <2>1. proc[p] \in Placed /\ proc[p].at = "activating" /\ gens[g].status = "building"
      BY <1>4 DEF Activate, Activatable, At
    <2>2. g \in Gens \ Active
      BY <2>1 DEF Placed, Building
    <2>3. gens' = [h \in Gens |-> IF h = g THEN [gens[g] EXCEPT !.status = "active"]
                                  ELSE IF h \in Active THEN NoGen ELSE gens[h]]
      BY <1>4 DEF Activate
    <2>4. gens[g] \in [status : {"active", "building"}, model : Keys]
      BY <2>1, <2>2 DEF Generations, NoGen
    <2>5. gens'[g] = [gens[g] EXCEPT !.status = "active"] /\ gens'[g].status = "active"
      BY <2>2, <2>3, <2>4
    <2>6. \A h \in Gens : h # g => gens'[h].status # "active"
      BY <2>3 DEF NoGen
    <2> HIDE DEF g
    <2>7. Active' = {g}
      BY <2>2, <2>5, <2>6
    <2>8. QED
      BY <2>2, <2>5, <2>7 DEF g
  <1>5. QED
    BY <1>1, <1>2, <1>3, <1>4

LEMMA OneActiveStep ==
  ASSUME TypeOK, OneActive, NEW p \in Procs, Step(p)
  PROVE  OneActive'
  <1>1. CASE UNCHANGED gens \/ NewGeneration(p, "building")
    <2>1. Active' = Active
      BY <1>1, ActiveAfter
    <2>2. QED
      BY <2>1 DEF OneActive
  <1>2. CASE Active = {} /\ NewGeneration(p, "active")
    <2>1. \E g \in Gens : Active' = {g}
      BY <1>2, ActiveAfter
    <2>2. QED
      BY <2>1 DEF OneActive
  <1>3. CASE Activate(p)
    <2>1. Active' = {proc[p].gen}
      BY <1>3, ActiveAfter
    <2>2. QED
      BY <2>1 DEF OneActive
  <1>4. QED
    BY <1>1, <1>2, <1>3, TableSteps DEF Replace, WriteVectors

\* The vectors follow the records, wherever those come and go.
LEMMA VectorsFollow ==
  ASSUME TypeOK, vectors = records, NEW p \in Procs, Step(p)
  PROVE  vectors' = records'
  <1>1. CASE Replace(p)
    BY <1>1 DEF Replace, Fired, Without
  <1>2. ASSUME NEW gone \in SUBSET Docs, Drop(gone) PROVE vectors' = records'
    BY <1>2 DEF Drop, Fired, Without
  <1>3. CASE WriteVectors(p)
    BY <1>3 DEF WriteVectors
  <1>4. CASE Activate(p)
    BY <1>4 DEF Activate, Fired
  <1>5. QED
    BY <1>1, <1>2, <1>3, <1>4, TableSteps DEF NewGeneration

\* A document that keeps its version keeps its chunks.
LEMMA NoOrphansStep ==
  ASSUME TypeOK, NoOrphans, NEW p \in Procs, Step(p)
  PROVE  NoOrphans'
  <1> USE DEF TypeOK, TypeTables
  <1> SUFFICES ASSUME NEW r \in records' PROVE r.chunk \in ChunksIn(docs') /\ gens'[r.gen] # NoGen
    BY VectorsFollow DEF NoOrphans, Chunks
  <1>0. r \in records => /\ r.chunk \in ChunksIn(docs) /\ gens[r.gen] # NoGen
                         /\ r.gen \in Gens
    BY DEF NoOrphans, Chunks, Records
  <1>1. CASE UNCHANGED <<docs, gens, records, vectors>>
    BY <1>0, <1>1
  <1>2. CASE NewGeneration(p, "active") \/ NewGeneration(p, "building")
    <2>1. r \in records /\ docs' = docs
      BY <1>2 DEF NewGeneration
    <2>2. gens'[r.gen] = gens[r.gen]
      BY <1>0, <1>2, <2>1 DEF NewGeneration
    <2>3. QED
      BY <1>0, <2>1, <2>2
  <1>3. CASE Replace(p)
    <2> DEFINE d == proc[p].doc
               v == proc[p].version
    <2>1. d \in Docs /\ v \in Versions
      BY <1>3 DEF Replace, At, Placed
    <2>2. docs' = [docs EXCEPT ![d] = v] /\ gens' = gens
      BY <1>3 DEF Replace
    <2>3. \/ r \in records /\ r.chunk \notin ChunksOfDoc(d)
          \/ r \in Vectors(ChunksOf[d][v], proc[p].gen, KeyOf[p])
      BY <1>3 DEF Replace, Without
    <2>4. CASE r \in records /\ r.chunk \notin ChunksOfDoc(d)
      <3>1. PICK e \in Docs : docs[e] # NoDoc /\ r.chunk \in ChunksOf[e][docs[e]]
        BY <1>0, <2>4, InChunks
      <3>2. e # d
        BY <2>4, <3>1 DEF ChunksOfDoc
      <3>3. docs'[e] = docs[e]
        BY <2>1, <2>2, <3>2
      <3>4. QED
        BY <1>0, <2>2, <2>4, <3>1, <3>3, InChunks
    <2>5. CASE r \in Vectors(ChunksOf[d][v], proc[p].gen, KeyOf[p])
      <3>1. r.chunk \in ChunksOf[d][v] /\ r.gen = proc[p].gen
        BY <2>5, InVectors
      <3>2. docs'[d] = v /\ v # NoDoc
        BY <2>1, <2>2
      <3>3. gens[proc[p].gen] # NoGen
        BY <1>3, <3>1 DEF Replace
      <3>4. QED
        BY <2>1, <2>2, <3>1, <3>2, <3>3, InChunks
    <2>6. QED
      BY <2>3, <2>4, <2>5
  <1>4. ASSUME NEW gone \in SUBSET Docs, Drop(gone), UNCHANGED gens
        PROVE  r.chunk \in ChunksIn(docs') /\ gens'[r.gen] # NoGen
    <2>1. r \in records /\ r.chunk \notin UNION {ChunksOfDoc(d) : d \in gone}
      BY <1>4 DEF Drop, Without
    <2>2. PICK e \in Docs : docs[e] # NoDoc /\ r.chunk \in ChunksOf[e][docs[e]]
      BY <1>0, <2>1, InChunks
    <2>3. e \notin gone
      BY <2>1, <2>2 DEF ChunksOfDoc
    <2>4. docs'[e] = docs[e]
      BY <1>4, <2>3 DEF Drop
    <2>5. QED
      BY <1>0, <1>4, <2>1, <2>2, <2>4, InChunks
  <1>5. CASE WriteVectors(p)
    <2>1. docs' = docs /\ gens' = gens
      BY <1>5 DEF WriteVectors
    <2>2. CASE r \in records
      BY <1>0, <2>1, <2>2
    <2>3. CASE r \in Vectors(proc[p].batch, proc[p].gen, KeyOf[p])
      <3>1. r.chunk \in proc[p].batch /\ r.gen = proc[p].gen
        BY <2>3, InVectors
      <3>2. QED
        BY <1>5, <2>1, <3>1 DEF WriteVectors, Writable, Chunks
    <2>4. QED
      BY <1>5, <2>2, <2>3 DEF WriteVectors
  <1>6. CASE Activate(p)
    <2>1. r \in records /\ r.gen \notin Active /\ docs' = docs
      BY <1>6 DEF Activate
    <2>2. CASE r.gen = proc[p].gen
      <3>1. r.gen \in Active'
        BY <1>6, <2>2, ActiveAfter
      <3>2. gens'[r.gen].status = "active"
        BY <3>1 DEF Active
      <3>3. QED
        BY <1>0, <2>1, <3>2 DEF NoGen
    <2>3. CASE r.gen # proc[p].gen
      BY <1>0, <1>6, <2>1, <2>3 DEF Activate
    <2>4. QED
      BY <1>0, <2>1, <2>2, <2>3
  <1>7. QED
    BY <1>1, <1>2, <1>3, <1>4, <1>5, <1>6, TableSteps

\* A generation that keeps its model keeps vectors of that model.
LEMMA ModelsUnmixedStep ==
  ASSUME IInv, NEW p \in Procs, Step(p), ~aliased'
  PROVE  ModelsUnmixed'
  <1> USE DEF IInv, TypeOK, TypeTables
  <1>a. ~aliased /\ Locked(p) /\ KnowsActive(p) /\ KnowsBuilding(p)
    BY Frame DEF Known
  <1> SUFFICES ASSUME NEW r \in records' PROVE r.model = gens'[r.gen].model
    BY DEF ModelsUnmixed
  <1>0. r \in records => r.model = gens[r.gen].model /\ gens[r.gen] # NoGen /\ r.gen \in Gens
    BY <1>a DEF ModelsUnmixed, NoOrphans, Records
  <1>1. CASE UNCHANGED <<docs, gens, records, vectors>>
    BY <1>0, <1>1
  <1>2. CASE NewGeneration(p, "active") \/ NewGeneration(p, "building")
    <2>1. r \in records
      BY <1>2 DEF NewGeneration
    <2>2. gens'[r.gen] = gens[r.gen]
      BY <1>0, <1>2, <2>1 DEF NewGeneration
    <2>3. QED
      BY <1>0, <2>1, <2>2
  <1>3. CASE Replace(p)
    <2>1. gens' = gens /\ (r \in records
            \/ r \in Vectors(ChunksOf[proc[p].doc][proc[p].version], proc[p].gen, KeyOf[p]))
      BY <1>3 DEF Replace, Without
    <2>2. proc[p].gen \in Active /\ IngestAccepted(p)
      BY <1>a, <1>3 DEF KnowsActive, Replace, At
    <2>3. gens[proc[p].gen].model = KeyOf[p]
      BY <2>2 DEF IngestAccepted
    <2>4. QED
      BY <1>0, <2>1, <2>3, InVectors
  <1>4. CASE \E gone \in SUBSET Docs : Drop(gone) /\ UNCHANGED gens
    BY <1>0, <1>4 DEF Drop, Without
  <1>5. CASE WriteVectors(p)
    <2>1. gens' = gens /\ (r \in records \/ r \in Vectors(proc[p].batch, proc[p].gen, KeyOf[p]))
      BY <1>5 DEF WriteVectors
    <2>2. gens[proc[p].gen].model = KeyOf[p]
      BY <1>a, <1>5 DEF KnowsBuilding, Building, WriteVectors, At
    <2>3. QED
      BY <1>0, <2>1, <2>2, InVectors
  <1>6. CASE Activate(p)
    <2>1. r \in records /\ r.gen \notin Active
      BY <1>6 DEF Activate
    <2>2. CASE r.gen = proc[p].gen
      <3>1. gens'[r.gen] = [gens[r.gen] EXCEPT !.status = "active"]
        BY <1>6, <2>2, ActiveAfter
      <3>2. gens[r.gen] \in [status : {"active", "building"}, model : Keys]
        BY <1>0, <2>1 DEF Generations
      <3>3. QED
        BY <1>0, <2>1, <3>1, <3>2
    <2>3. CASE r.gen # proc[p].gen
      BY <1>0, <1>6, <2>1, <2>3 DEF Activate
    <2>4. QED
      BY <2>2, <2>3
  <1>7. QED
    BY <1>1, <1>2, <1>3, <1>4, <1>5, <1>6, TableSteps

\* A chunk belongs to one document, so what goes with a document is not
\* needed by another.
LEMMA OtherDocumentsStay ==
  ASSUME TypeTables, NEW d \in Docs, NEW e \in Docs, d # e,
         docs[e] # NoDoc, NEW c \in ChunksOf[e][docs[e]]
  PROVE  c \notin ChunksOfDoc(d)
  BY DEF TypeTables, ChunksOfDoc

LEMMA CoveringStep ==
  ASSUME IInv, NEW p \in Procs, Step(p), ~aliased'
  PROVE  Covering'
  <1> USE DEF IInv, TypeOK, TypeTables
  <1>a. ~aliased /\ Covering /\ Locked(p) /\ KnowsActive(p) /\ KnowsBuilding(p)
    BY Frame DEF Known
  <1>b. ASSUME NEW c \in Chunks, NEW g \in Active
        PROVE  \E r \in records : r.gen = g /\ r.chunk = c
    <2> SUFFICES c \in Embedded(g)
      BY InEmbedded
    <2>1. PICK h \in Active : Covered(h)
      BY <1>a DEF Covering
    <2>2. h = g
      BY DEF OneActive
    <2>3. QED
      BY <2>1, <2>2 DEF Covered
  <1> SUFFICES ASSUME NEW some \in Chunks'
               PROVE  \E g \in Active' : Covered(g)'
    BY DEF Covering
  <1>1. CASE docs' = docs /\ records \subseteq records' /\ Active' = Active
    <2>1. Chunks' = Chunks
      BY <1>1 DEF Chunks
    <2>2. PICK g \in Active : Covered(g)
      BY <1>a, <2>1 DEF Covering
    <2>3. Covered(g)'
      BY <1>1, <2>1, <2>2 DEF Covered, Embedded
    <2>4. QED
      BY <1>1, <2>3
  <1>2. CASE Active = {} /\ NewGeneration(p, "active")
    <2>1. Chunks' = Chunks
      BY <1>2 DEF NewGeneration, Chunks
    <2>2. QED
      BY <1>a, <1>2, <2>1 DEF Covering
  <1>3. CASE Replace(p)
    <2>0. /\ proc[p].doc \in Docs /\ proc[p].version \in Versions
          /\ proc[p].gen \in Active /\ Active' = Active
      BY <1>a, <1>3, ActiveAfter DEF KnowsActive, Replace, At, Placed
    <2>1. PICK d \in Docs, v \in Versions, g \in Active :
            d = proc[p].doc /\ v = proc[p].version /\ g = proc[p].gen
      BY <2>0
    <2>2. /\ docs' = [docs EXCEPT ![d] = v]
          /\ records' = Without(records, ChunksOfDoc(d)) \cup Vectors(ChunksOf[d][v], g, KeyOf[p])
      BY <1>3, <2>1 DEF Replace
    <2>3. ASSUME NEW c \in Chunks' PROVE c \in Embedded(g)'
      <3>1. PICK e \in Docs : docs'[e] # NoDoc /\ c \in ChunksOf[e][docs'[e]]
        BY <2>3, InChunks DEF Chunks
      <3>2. CASE e = d
        <4>1. c \in ChunksOf[d][v]
          BY <2>1, <2>2, <3>1, <3>2
        <4>2. [chunk |-> c, gen |-> g, model |-> KeyOf[p]] \in records'
          BY <2>2, <4>1, InVectors
        <4>3. QED
          BY <4>2, InEmbedded
      <3>3. CASE e # d
        <4>1. docs'[e] = docs[e]
          BY <2>2, <3>3
        <4>2. c \in Chunks
          <5>1. docs[e] # NoDoc /\ c \in ChunksOf[e][docs[e]]
            BY <3>1, <4>1
          <5>2. QED
            BY <5>1, InChunks DEF Chunks
        <4>3. c \notin ChunksOfDoc(d)
          BY <2>1, <3>1, <3>3, <4>1, OtherDocumentsStay
        <4>4. PICK r \in records : r.gen = g /\ r.chunk = c
          <5>1. g \in Active
            BY <2>1
          <5>2. QED
            BY <1>b, <4>2, <5>1
        <4>5. r \in records'
          BY <2>2, <4>3, <4>4 DEF Without
        <4>6. QED
          BY <4>4, <4>5, InEmbedded
      <3>4. QED
        BY <3>2, <3>3
    <2>4. QED
      BY <2>0, <2>3 DEF Covered
  <1>4. ASSUME NEW gone \in SUBSET Docs, Drop(gone), UNCHANGED gens
        PROVE  \E g \in Active' : Covered(g)'
    <2>1. ASSUME NEW c \in Chunks'
          PROVE  c \in Chunks /\ c \notin UNION {ChunksOfDoc(d) : d \in gone}
      <3>1. PICK e \in Docs : docs'[e] # NoDoc /\ c \in ChunksOf[e][docs'[e]]
        BY <2>1, InChunks DEF Chunks
      <3>2. e \notin gone /\ docs'[e] = docs[e]
        BY <1>4, <3>1 DEF Drop
      <3>3. c \in Chunks
        BY <3>1, <3>2, InChunks DEF Chunks
      <3>4. \A d \in gone : c \notin ChunksOfDoc(d)
        BY <3>1, <3>2, OtherDocumentsStay
      <3>5. QED
        BY <3>3, <3>4
    <2>2. Active' = Active
      BY <1>4, ActiveAfter
    <2>3. PICK g \in Active : TRUE
      BY <1>a, <2>1 DEF Covering
    <2>4. ASSUME NEW c \in Chunks' PROVE c \in Embedded(g)'
      <3>1. PICK r \in records : r.gen = g /\ r.chunk = c
        BY <1>b, <2>1, <2>4
      <3>2. r \in records'
        BY <1>4, <2>1, <2>4, <3>1 DEF Drop, Without
      <3>3. QED
        BY <3>1, <3>2, InEmbedded
    <2>5. QED
      BY <2>2, <2>4 DEF Covered
  <1>5. CASE Activate(p)
    <2>1. PICK g \in Gens \ Active : g = proc[p].gen /\ Active' = {g}
      BY <1>5, ActiveAfter
    <2>2. Covered(g) /\ docs' = docs /\ records' = {r \in records : r.gen \notin Active}
      BY <1>5, <2>1 DEF Activate, Activatable
    <2>3. ASSUME NEW c \in Chunks' PROVE c \in Embedded(g)'
      <3>1. c \in Embedded(g)
        BY <2>2, <2>3 DEF Covered, Chunks
      <3>2. PICK r \in records : r.gen = g /\ r.chunk = c
        BY <3>1, InEmbedded
      <3>3. QED
        BY <2>1, <2>2, <3>2, InEmbedded
    <2>4. QED
      BY <2>1, <2>3 DEF Covered
  <1>6. CASE WriteVectors(p)
    BY <1>1, <1>6, ActiveAfter DEF WriteVectors
  <1>7. CASE UNCHANGED <<docs, gens, records, vectors>>
    BY <1>1, <1>7, ActiveAfter
  <1>8. CASE NewGeneration(p, "building")
    BY <1>1, <1>8, ActiveAfter DEF NewGeneration
  <1>9. QED
    BY <1>2, <1>3, <1>4, <1>5, <1>6, <1>7, <1>8, TableSteps

\* The steps that lead a process to a place where it knows something.
LEMMA Arrivals ==
  ASSUME TypeOK, NEW p \in Procs, Step(p)
  PROVE  /\ proc'[p].at \in {"checking", "ingesting", "replacing", "rebuilding"} =>
              \/ \E command \in {"checking", "rebuilding"} :
                   RegisterModel(p, command) /\ proc'[p].at = command
              \/ CheckModel(p) /\ proc'[p].at = "ingesting" /\ IngestAccepted(p) /\ UNCHANGED gens
              \/ \E d \in Docs, v \in Versions : BeginReplace(p, d, v)
              \/ Replace(p) /\ proc'[p].at = "ingesting"
              \/ Prune(p)
         /\ proc'[p].at \in Building => ChooseGeneration(p) \/ Fetch(p) \/ WriteVectors(p)
  <1> USE DEF TypeOK
  <1>1. CASE Exit(p) \/ LockTimeout(p)
    BY <1>1, IdlePlaced DEF Exit, LockTimeout, Building
  <1>2. CASE Resolve(p)
    <2>1. proc'[p].at = "locking"
      BY <1>2 DEF Resolve, Idle
    <2>2. QED
      BY <2>1 DEF Building
  <1>3. CASE Lock(p) \/ Open(p)
    <2>1. proc'[p].at \in {"opening", "open"}
      BY <1>3 DEF Lock, Open, Goto, Placed, Locals
    <2>2. QED
      BY <2>1 DEF Building
  <1>4. ASSUME NEW command \in {"checking", "rebuilding"}, RegisterModel(p, command)
        PROVE  proc'[p].at = command
    BY <1>4 DEF RegisterModel, Goto, Placed, Locals
  <1>5. CASE StartIngest(p) \/ StartRebuild(p)
    <2>1. \E command \in {"checking", "rebuilding"} :
            RegisterModel(p, command) /\ proc'[p].at = command
      BY <1>4, <1>5 DEF StartIngest, StartRebuild
    <2>2. proc'[p].at \notin Building
      BY <2>1 DEF Building
    <2>3. QED
      BY <2>1, <2>2
  <1>6. CASE CheckModel(p) /\ ~Exit(p)
    <2>1. Goto(p, "ingesting") /\ IngestAccepted(p) /\ UNCHANGED gens
      BY <1>6 DEF CheckModel, Refuse
    <2>2. proc'[p].at = "ingesting"
      BY <2>1 DEF Goto, Placed, Locals
    <2>3. QED
      BY <1>6, <2>1, <2>2 DEF Building
  <1>7. CASE \E d \in Docs, v \in Versions : BeginReplace(p, d, v)
    <2>1. proc'[p].at = "replacing"
      BY <1>7 DEF BeginReplace, Placed, Locals
    <2>2. QED
      BY <1>7, <2>1 DEF Building
  <1>8. CASE Replace(p)
    <2>1. proc'[p].at = "ingesting"
      BY <1>8 DEF Replace, Idle
    <2>2. QED
      BY <1>8, <2>1 DEF Building
  <1>9. CASE Prune(p)
    BY <1>9 DEF Prune, At, Building
  <1>10. CASE ChooseGeneration(p)
    <2>1. proc'[p].at = "fetching"
      BY <1>10 DEF ChooseGeneration, Placed, Locals
    <2>2. QED
      BY <1>10, <2>1
  <1>11. CASE Fetch(p)
    <2>1. proc'[p].at \in {"activating", "embedding"}
      BY <1>11 DEF Fetch, Placed, Locals
    <2>2. QED
      BY <1>11, <2>1
  <1>12. CASE WriteVectors(p)
    <2>1. proc'[p].at = "fetching"
      BY <1>12 DEF WriteVectors, Placed, Locals
    <2>2. QED
      BY <1>12, <2>1
  <1>13. QED
    BY <1>1, <1>2, <1>3, <1>5, <1>6, <1>7, <1>8, <1>9, <1>10, <1>11, <1>12
    DEF Step, Work, Migrate, Crash, ReplaceRejected, EndIngest, RefuseRebuild, EmbedFails,
        WriteRejected, ActivateRefused, Remove, Activate, Refuse

LEMMA LockedStep ==
  ASSUME IInv, NEW p \in Procs, Step(p), ~aliased', NEW q \in Procs
  PROVE  Locked(q)'
  <1> USE DEF IInv, TypeOK
  <1>a. ~aliased /\ Locked(p) /\ Locked(q)
    BY Frame DEF Known
  <1>1. CASE q # p
    <2>1. proc'[q] = proc[q] /\ (locks[Real] = q => locks'[Real] = q)
      BY <1>1, Frame
    <2>2. QED
      BY <1>a, <2>1 DEF Locked, At, Holding
  <1>2. CASE q = p
    <2>1. CASE Resolve(p)
      <3>1. LockName(p) = Real
        BY <2>1 DEF Resolve
      <3>2. QED
        BY <1>2, <2>1, <3>1 DEF Resolve, Locked, At, Holding, Idle
    <2>2. CASE Lock(p)
      <3>1. proc[p].name = Real
        BY <1>a, <2>2 DEF Lock, Locked, At
      <3>2. locks'[Real] = p /\ proc'[p].name = Real
        BY <2>2, <3>1 DEF Lock, Goto
      <3>3. QED
        BY <1>2, <3>2 DEF Locked
    <2>3. CASE ~Resolve(p) /\ ~Lock(p)
      <3>1. At(p, "idle") => UNCHANGED proc
        BY <2>3 DEF Step, Work, Lock, LockTimeout, Open, StartIngest, CheckModel, BeginReplace,
           Replace, ReplaceRejected, Prune, EndIngest, Remove, Migrate, StartRebuild,
           ChooseGeneration, RefuseRebuild, Fetch, EmbedFails, WriteVectors, WriteRejected,
           Activate, ActivateRefused, Crash, RegisterModel, At
      <3>2. At(p, "idle")' \/ proc'[p].name = Real
        BY <1>a, <3>1, Moves DEF Locked, At
      <3>3. Holding(p)' => locks'[Real] = p
        BY <1>a, <2>3, Moves DEF Locked
      <3>4. QED
        BY <1>2, <3>2, <3>3 DEF Locked
    <2>4. QED
      BY <2>1, <2>2, <2>3
  <1>3. QED
    BY <1>1, <1>2

\* What another process knows is still true: it would have to share the lock.
LEMMA OthersKnow ==
  ASSUME IInv, NEW p \in Procs, Step(p), ~aliased', NEW q \in Procs, q # p
  PROVE  KnowsActive(q)' /\ KnowsBuilding(q)'
  <1> USE DEF IInv
  <1>a. ~aliased /\ Locked(p) /\ Locked(q) /\ KnowsActive(q) /\ KnowsBuilding(q)
    BY Frame DEF Known
  <1>1. proc'[q] = proc[q]
    BY Frame
  <1>2. CASE Holding(q)
    <2>1. ~Holding(p)
      BY <1>a, <1>2 DEF Locked
    <2>2. UNCHANGED <<docs, gens, records, vectors>>
      BY <2>1, Frame
    <2>3. KnowsActive(q)'
      BY <1>a, <1>1, <2>2 DEF KnowsActive, Active, IngestAccepted, At
    <2>4. KnowsBuilding(q)'
      BY <1>a, <1>1, <2>2
      DEF KnowsBuilding, Filled, Page, Pending, Covered, Chunks, Embedded, At
    <2>5. QED
      BY <2>3, <2>4
  <1>3. CASE ~Holding(q)
    BY <1>1, <1>3 DEF KnowsActive, KnowsBuilding, Holding, At, Building
  <1>4. QED
    BY <1>2, <1>3

LEMMA KnowsActiveStep ==
  ASSUME IInv, NEW p \in Procs, Step(p), ~aliased'
  PROVE  KnowsActive(p)'
  <1> USE DEF IInv, TypeOK
  <1>a. ~aliased /\ KnowsActive(p)
    BY Frame DEF Known
  <1>1. CASE proc'[p].at \notin {"checking", "ingesting", "replacing", "rebuilding"}
    BY <1>1 DEF KnowsActive, At
  <1>2. ASSUME NEW command \in {"checking", "rebuilding"}, RegisterModel(p, command),
               proc'[p].at = command
        PROVE  KnowsActive(p)'
    <2>1. Active' # {}
      <3>1. CASE Active # {} /\ UNCHANGED gens
        BY <3>1, ActiveAfter
      <3>2. CASE Active = {} /\ ~UNCHANGED gens
        <4>1. NewGeneration(p, "active")
          BY <1>2, <3>2, NextIdIsFree DEF RegisterModel, NewGeneration
        <4>2. QED
          BY <3>2, <4>1, ActiveAfter
      <3>3. CASE Active = {} /\ UNCHANGED gens
        <4>1. PICK g \in Gens : gens' = [gens EXCEPT ![g] =
                                  [status |-> "active", model |-> KeyOf[p]]]
          BY <1>2, <3>3 DEF RegisterModel
        <4>2. g \in Active'
          BY <4>1 DEF Active, TypeTables
        <4>3. QED
          BY <4>2
      <3>4. QED
        BY <1>2, <3>1, <3>2, <3>3 DEF RegisterModel
    <2>2. QED
      BY <1>2, <2>1 DEF KnowsActive, At
  <1>3. CASE CheckModel(p) /\ proc'[p].at = "ingesting" /\ IngestAccepted(p) /\ UNCHANGED gens
    <2>1. Active' = Active /\ Active # {}
      BY <1>a, <1>3, ActiveAfter DEF CheckModel, KnowsActive, At
    <2>2. QED
      BY <1>3, <2>1 DEF KnowsActive, IngestAccepted, At
  <1>4. ASSUME NEW d \in Docs, NEW v \in Versions, BeginReplace(p, d, v)
        PROVE  KnowsActive(p)'
    <2>1. proc'[p].at = "replacing" /\ proc'[p].gen \in Active /\ UNCHANGED gens
      BY <1>4 DEF BeginReplace, Placed, Locals
    <2>2. Active' = Active /\ Active # {} /\ IngestAccepted(p)
      BY <1>a, <1>4, <2>1, ActiveAfter DEF BeginReplace, KnowsActive, At
    <2>3. QED
      BY <2>1, <2>2 DEF KnowsActive, IngestAccepted, At
  <1>5. CASE Replace(p) /\ proc'[p].at = "ingesting"
    <2>1. UNCHANGED gens /\ IngestAccepted(p) /\ Active # {}
      BY <1>a, <1>5 DEF Replace, KnowsActive, At
    <2>2. Active' = Active
      BY <2>1, ActiveAfter
    <2>3. QED
      BY <1>5, <2>1, <2>2 DEF KnowsActive, IngestAccepted, At
  <1>6. CASE Prune(p)
    <2>1. UNCHANGED <<gens, proc>>
      BY <1>6 DEF Prune
    <2>2. Active' = Active
      BY <2>1, ActiveAfter
    <2>3. QED
      BY <1>a, <2>1, <2>2 DEF KnowsActive, IngestAccepted, At
  <1>7. QED
    BY <1>1, <1>2, <1>3, <1>4, <1>5, <1>6, Arrivals

LEMMA KnowsBuildingStep ==
  ASSUME IInv, NEW p \in Procs, Step(p), ~aliased'
  PROVE  KnowsBuilding(p)'
  <1> USE DEF IInv, TypeOK
  <1>a. ~aliased /\ KnowsBuilding(p) /\ proc[p] \in Placed
    BY Frame DEF Known
  <1>b. Chunks \subseteq Nat \ {0}
    BY FiniteChunks DEF Chunks, TypeTables
  <1>1. CASE proc'[p].at \notin Building
    BY <1>1 DEF KnowsBuilding, Building, At
  <1>2. CASE ChooseGeneration(p)
    <2>1. PICK g \in Gens :
            /\ gens'[g] = [status |-> "building", model |-> KeyOf[p]]
            /\ proc'[p].at = "fetching" /\ proc'[p].gen = g /\ proc'[p].cursor = 0
      <3>1. PICK g \in Gens :
              /\ \/ g \in Unfinished(KeyOf[p]) /\ UNCHANGED gens
                 \/ gens' = [gens EXCEPT ![g] = [status |-> "building", model |-> KeyOf[p]]]
              /\ proc' = [proc EXCEPT ![p].at = "fetching", ![p].gen = g, ![p].cursor = 0]
        BY <1>2 DEF ChooseGeneration, Latest
      <3>2. gens'[g] = [status |-> "building", model |-> KeyOf[p]]
        BY <3>1 DEF Unfinished, TypeTables
      <3>3. proc'[p].at = "fetching" /\ proc'[p].gen = g /\ proc'[p].cursor = 0
        BY <1>a, <3>1 DEF Placed, Locals
      <3>4. QED
        BY <3>2, <3>3
    <2>2. Chunks' = Chunks
      BY <1>2 DEF ChooseGeneration, Chunks
    <2>3. \A c \in Chunks : ~(c <= 0)
      BY <1>b
    <2>4. Filled(proc[p].gen, proc[p].cursor)'
      BY <2>1, <2>2, <2>3 DEF Filled
    <2>5. QED
      BY <2>1, <2>4 DEF KnowsBuilding, At
  <1>3. CASE Fetch(p)
    <2>1. PICK g \in Gens, cursor \in Nat : g = proc[p].gen /\ cursor = proc[p].cursor
      BY <1>3, <1>a DEF Fetch, At, Placed, Locals, Building
    <2>2. /\ proc'[p].at = (IF Pending(g, cursor) = {} THEN "activating" ELSE "embedding")
          /\ proc'[p].batch = FirstOf(Pending(g, cursor), Batch)
          /\ proc'[p].gen = g /\ proc'[p].cursor = cursor
          /\ UNCHANGED <<docs, gens, records, vectors>>
      BY <1>3, <1>a, <2>1 DEF Fetch, Placed, Locals
    <2>3. gens[g] = [status |-> "building", model |-> KeyOf[p]] /\ Filled(g, cursor)
      BY <1>3, <1>a, <2>1 DEF KnowsBuilding, Fetch, At, Building
    <2>4. gens'[g] = [status |-> "building", model |-> KeyOf[p]] /\ Filled(g, cursor)'
      BY <2>2, <2>3 DEF Filled, Chunks, Embedded
    <2>5. Page(p)' = Pending(g, cursor)
      BY <2>2 DEF Page, Pending, Chunks, Embedded
    <2>6. ASSUME Pending(g, cursor) = {} PROVE Covered(g)'
      <3>1. ASSUME NEW c \in Chunks PROVE c \in Embedded(g)
        <4>1. c \in Nat /\ (c <= cursor \/ c > cursor)
          BY <1>b
        <4>2. c > cursor => c \in Embedded(g)
          BY <2>6 DEF Pending
        <4>3. QED
          BY <2>3, <4>1, <4>2 DEF Filled
      <3>2. QED
        BY <2>2, <3>1 DEF Covered, Chunks, Embedded
    <2>7. QED
      <3>1. proc'[p].at \in Building =>
              /\ gens'[proc'[p].gen] = [status |-> "building", model |-> KeyOf[p]]
              /\ Filled(proc[p].gen, proc[p].cursor)'
        BY <2>2, <2>4
      <3>2. At(p, "embedding")' => Page(p)' # {} /\ proc'[p].batch = FirstOf(Page(p)', Batch)
        BY <2>2, <2>5 DEF At
      <3>3. At(p, "activating")' => Covered(proc[p].gen)'
        BY <2>2, <2>6 DEF At
      <3>4. QED
        BY <3>1, <3>2, <3>3 DEF KnowsBuilding, FirstOf
  <1>4. CASE WriteVectors(p)
    <2>1. PICK g \in Gens, cursor \in Nat : g = proc[p].gen /\ cursor = proc[p].cursor
      BY <1>4, <1>a DEF WriteVectors, At, Placed, Locals, Building
    <2>2. PICK last \in proc[p].batch :
            proc' = [proc EXCEPT ![p].at = "fetching", ![p].cursor = last, ![p].batch = {}]
      BY <1>4 DEF WriteVectors
    <2>3. proc'[p].at = "fetching" /\ proc'[p].gen = g /\ proc'[p].cursor = last
      BY <1>a, <2>1, <2>2 DEF Placed, Locals
    <2>4. /\ gens[g] = [status |-> "building", model |-> KeyOf[p]] /\ Filled(g, cursor)
          /\ proc[p].batch = FirstOf(Pending(g, cursor), Batch)
      BY <1>4, <1>a, <2>1 DEF KnowsBuilding, WriteVectors, At, Building, Page
    <2>5. /\ UNCHANGED <<docs, gens>>
          /\ records' = records \cup Vectors(proc[p].batch, g, KeyOf[p])
      BY <1>4, <2>1 DEF WriteVectors
    <2>6. last \in Nat
      BY <2>2, <2>4, PagesAreChunks
    <2>7. ASSUME NEW c \in Chunks', c <= last PROVE c \in Embedded(g)'
      <3>1. c \in Chunks /\ c \in Nat
        BY <1>b, <2>5, <2>7 DEF Chunks
      <3>2. CASE c \in Embedded(g)
        BY <2>5, <3>2, InEmbedded
      <3>3. CASE c \notin Embedded(g)
        <4>1. c > cursor
          BY <2>4, <3>1, <3>3 DEF Filled
        <4>2. c \in Pending(g, cursor)
          BY <3>1, <3>3, <4>1 DEF Pending
        <4>3. c \in proc[p].batch
          BY <2>2, <2>4, <2>7, <4>2, PagesAreChunks, FirstOfSet
        <4>4. [chunk |-> c, gen |-> g, model |-> KeyOf[p]] \in records'
          BY <2>5, <4>3, InVectors
        <4>5. QED
          BY <4>4, InEmbedded
      <3>4. QED
        BY <3>2, <3>3
    <2>8. Filled(proc[p].gen, proc[p].cursor)'
      BY <2>3, <2>7 DEF Filled
    <2>9. QED
      BY <2>3, <2>4, <2>5, <2>8 DEF KnowsBuilding, At
  <1>5. QED
    BY <1>1, <1>2, <1>3, <1>4, Arrivals

-----------------------------------------------------------------------------
(* The theorems.                                                           *)

LEMMA InitInv == Init => IInv
  <1> SUFFICES ASSUME Init PROVE IInv
    OBVIOUS
  <1> USE DEF Init
  <1>1. TypeOK
    BY InitType
  <1>2. Active = {} /\ Chunks = {}
    BY DEF Active, NoGen, Chunks, ChunksIn
  <1>3. OneActive /\ NoOrphans /\ Covering /\ ModelsUnmixed
    BY <1>2 DEF OneActive, NoOrphans, Covering, ModelsUnmixed
  <1>4. Known
    BY DEF Known, Locked, KnowsActive, KnowsBuilding, Holding, At, Idle, Building
  <1>5. SearchComparesOwnModel
    BY DEF SearchComparesOwnModel
  <1>6. QED
    BY <1>1, <1>3, <1>4, <1>5 DEF IInv

LEMMA WriterInv ==
  ASSUME IInv, NEW p \in Procs, Step(p)
  PROVE  IInv'
  <1> USE DEF IInv
  <1>1. TypeOK'
    BY StepType DEF Next
  <1>2. OneActive' /\ NoOrphans'
    BY OneActiveStep, NoOrphansStep
  <1>3. ~aliased' => Known'
    BY LockedStep, OthersKnow, KnowsActiveStep, KnowsBuildingStep DEF Known
  <1>4. ~aliased' => Covering'
    BY CoveringStep
  <1>5. ModelsUnmixed'
    BY ModelsUnmixedStep DEF ModelsUnmixed
  <1>6. SearchComparesOwnModel'
    BY Frame DEF SearchComparesOwnModel, reading
  <1>7. QED
    BY <1>1, <1>2, <1>3, <1>4, <1>5, <1>6

\* What is known depends on the tables, the locks and the writers alone.
LEMMA StillKnown ==
  ASSUME UNCHANGED <<locks, docs, gens, records, vectors, proc>>, Known, Covering
  PROVE  Known' /\ Covering'
  <1>1. ASSUME NEW p \in Procs PROVE Locked(p)'
    BY DEF Known, Locked, Holding, At
  <1>2. ASSUME NEW p \in Procs PROVE KnowsActive(p)'
    BY DEF Known, KnowsActive, At, Active, IngestAccepted
  <1>3. ASSUME NEW p \in Procs PROVE KnowsBuilding(p)'
    <2>1. KnowsBuilding(p)
      BY DEF Known
    <2>2. Page(p)' = Page(p) /\ Chunks' = Chunks
      BY DEF Page, Pending, Chunks, Embedded
    <2>3. /\ Filled(proc[p].gen, proc[p].cursor)' <=> Filled(proc[p].gen, proc[p].cursor)
          /\ Covered(proc[p].gen)' <=> Covered(proc[p].gen)
      BY <2>2 DEF Filled, Covered, Embedded
    <2>4. FirstOf(Page(p), Batch)' = FirstOf(Page(p), Batch)
      BY <2>2 DEF FirstOf
    <2>5. QED
      BY <2>1, <2>2, <2>3, <2>4 DEF KnowsBuilding, At
  <1>4. Covering'
    BY DEF Covering, Covered, Chunks, Embedded, Active
  <1>5. QED
    BY <1>1, <1>2, <1>3, <1>4 DEF Known

LEMMA ReaderInv ==
  ASSUME IInv, NEW s \in Searchers, Read(s)
  PROVE  IInv'
  <1> USE DEF IInv
  <1>1. TypeOK'
    BY ReadType
  <1>2. UNCHANGED <<created, locks, docs, gens, records, vectors, proc, aliased>>
    BY DEF Read, BeginSearch, SearchFails, EndSearch
  <1>3. OneActive' /\ NoOrphans' /\ ModelsUnmixed'
    BY <1>2 DEF OneActive, Active, NoOrphans, Chunks, ModelsUnmixed
  <1>4. ~aliased' => Known' /\ Covering'
    BY <1>2, StillKnown
  <1>5. SearchComparesOwnModel'
    <2> SUFFICES ASSUME ~aliased, NEW t \in Searchers
                 PROVE  compared'[t] \subseteq {KeyOf[t]}
      BY <1>2 DEF SearchComparesOwnModel
    <2>1. compared[t] \subseteq {KeyOf[t]}
      BY DEF SearchComparesOwnModel
    <2>2. CASE UNCHANGED compared
      BY <2>1, <2>2
    <2>3. CASE EndSearch(s) /\ Supported(s)
                /\ compared' = [compared EXCEPT ![s] = @ \cup {v.model : v \in Neighbours}]
      <3>1. \A v \in Neighbours : v.model = KeyOf[s]
        BY <2>3 DEF ModelsUnmixed, NoOrphans, Neighbours, Supported
      <3>2. {v.model : v \in Neighbours} \subseteq {KeyOf[s]}
        BY <3>1
      <3>3. QED
        BY <2>1, <2>3, <3>2 DEF TypeOK
    <2>4. QED
      BY <2>2, <2>3 DEF Read, BeginSearch, SearchFails, EndSearch, StillSupported
  <1>6. QED
    BY <1>1, <1>3, <1>4, <1>5

\* The inductive invariant holds at every moment.
THEOREM StoreInvariant == Spec => []IInv
  <1>1. IInv /\ [Next]_vars => IInv'
    <2> SUFFICES ASSUME IInv, [Next]_vars PROVE IInv'
      OBVIOUS
    <2>1. CASE UNCHANGED vars
      <3>1. TypeOK'
        BY StepType DEF IInv
      <3>2. OneActive' /\ NoOrphans' /\ ModelsUnmixed' /\ SearchComparesOwnModel'
        BY <2>1 DEF vars, IInv, OneActive, Active, NoOrphans, Chunks, ModelsUnmixed,
                    SearchComparesOwnModel
      <3>3. ~aliased' => Known' /\ Covering'
        BY <2>1, StillKnown DEF vars, IInv
      <3>4. QED
        BY <3>1, <3>2, <3>3 DEF IInv
    <2>2. QED
      BY <2>1, WriterInv, ReaderInv DEF Next
  <1>2. QED
    BY <1>1, InitInv, PTL DEF Spec

\* No vector outlives its chunk or its generation.
THEOREM OrphansNever == Spec => []NoOrphans
  <1>1. IInv => NoOrphans
    BY DEF IInv
  <1>2. QED
    BY <1>1, StoreInvariant, PTL

\* One writer at a time, whatever links name the database, as long as every
\* process took the canonical name: `WriterLock::acquire`.
THEOREM OneWriter == Spec => []LinksShareTheLock
  <1>1. IInv => LinksShareTheLock
    <2> SUFFICES ASSUME IInv, ~aliased, NEW p \in Procs, NEW q \in Procs,
                        Holding(p), Holding(q)
                 PROVE  p = q
      BY DEF LinksShareTheLock, MutualExclusion
    <2>1. locks[Real] = p /\ locks[Real] = q
      BY DEF IInv, Known, Locked
    <2>2. QED
      BY <2>1
  <1>2. QED
    BY <1>1, StoreInvariant, PTL

\* A generation holds vectors of its own model only.
THEOREM ModelsNeverMix == Spec => []ModelsUnmixed
  <1>1. IInv => ModelsUnmixed
    BY DEF IInv
  <1>2. QED
    BY <1>1, StoreInvariant, PTL

\* There is never a second active generation, and the active one has a vector
\* for every stored chunk.
THEOREM ActiveIsComplete == Spec => []ActiveCovers
  <1>1. IInv => ActiveCovers
    BY DEF IInv, OneActive, Covering, ActiveCovers
  <1>2. QED
    BY <1>1, StoreInvariant, PTL

\* A page read before an inference can be written after it.
THEOREM PagesCanBeWritten == Spec => []CheckpointsFit
  <1>1. IInv => CheckpointsFit
    <2> SUFFICES ASSUME IInv, ~aliased, NEW p \in Procs, At(p, "embedding")
                 PROVE  Writable(p) /\ Cardinality(proc[p].batch) \in 1..Batch
      BY DEF CheckpointsFit
    <2> DEFINE page == Pending(proc[p].gen, proc[p].cursor)
    <2>0. TypeTables /\ KnowsBuilding(p)
      BY DEF IInv, TypeOK, Known
    <2>1. /\ gens[proc[p].gen] = [status |-> "building", model |-> KeyOf[p]]
          /\ page # {} /\ proc[p].batch = FirstOf(page, Batch)
      BY <2>0 DEF KnowsBuilding, Page, At, Building
    <2>2. IsFiniteSet(page) /\ page \subseteq Nat
      BY <2>0, PagesAreChunks
    <2>2a. page \subseteq Chunks \ Embedded(proc[p].gen)
      BY DEF Pending
    <2> HIDE DEF page
    <2>3. /\ proc[p].batch \subseteq page /\ IsFiniteSet(proc[p].batch) /\ proc[p].batch # {}
          /\ Cardinality(proc[p].batch) <= Batch
      <3>1. /\ FirstOf(page, Batch) \subseteq page /\ IsFiniteSet(FirstOf(page, Batch))
            /\ FirstOf(page, Batch) # {} /\ Cardinality(FirstOf(page, Batch)) <= Batch
        <4>1. Batch \in Nat \ {0} /\ page # {}
          BY <2>1
        <4>2. QED
          BY <2>2, <4>1, FirstOfSet
      <3>2. QED
        BY <2>1, <3>1
    <2>4. Cardinality(proc[p].batch) \in Nat /\ Cardinality(proc[p].batch) # 0
      BY <2>3, FS_CardinalityType, FS_EmptySet
    <2>5. gens[proc[p].gen] # NoGen
      BY <2>1 DEF NoGen
    <2>6. QED
      <3>1. Writable(p)
        BY <2>2a, <2>3, <2>5 DEF Writable
      <3>2. QED
        BY <2>3, <2>4, <3>1
  <1>2. QED
    BY <1>1, StoreInvariant, PTL

\* A rebuild whose cursor ran off the end left no chunk without a vector.
THEOREM NoHoleIsLeft == Spec => []CursorLeavesNoHole
  <1>1. IInv => CursorLeavesNoHole
    <2> SUFFICES ASSUME IInv, ~aliased, NEW p \in Procs, At(p, "activating")
                 PROVE  Activatable(proc[p].gen)
      BY DEF CursorLeavesNoHole
    <2>1. KnowsBuilding(p)
      BY DEF IInv, Known
    <2>2. Covered(proc[p].gen) /\ gens[proc[p].gen].status = "building"
      BY <2>1 DEF KnowsBuilding, At, Building
    <2>3. QED
      BY <2>2 DEF Activatable
  <1>2. QED
    BY <1>1, StoreInvariant, PTL

\* A query vector is compared with vectors of its own model only.
THEOREM ComparesOwnModel == Spec => []SearchComparesOwnModel
  <1>1. IInv => SearchComparesOwnModel
    BY DEF IInv
  <1>2. QED
    BY <1>1, StoreInvariant, PTL

-----------------------------------------------------------------------------
(* The store implements the atomic view of whole documents.                *)

\* What a search can rank is at every moment what is stored.
PromiseKept == Promised = Chunks

LEMMA PromisedIsStored == IInv => PromiseKept
  <1> SUFFICES ASSUME IInv PROVE Promised = Chunks
    BY DEF PromiseKept
  <1>1. CASE aliased
    BY <1>1 DEF Promised
  <1>2. CASE ~aliased
    <2>0. Scope \cap Neighbours = {r \in records : r.gen \in Active}
      BY DEF IInv, NoOrphans, Scope, Neighbours
    <2>1. ASSUME NEW c \in Rankable PROVE c \in Chunks
      BY <2>0, <2>1 DEF IInv, NoOrphans, Rankable
    <2>2. ASSUME NEW c \in Chunks PROVE c \in Rankable
      BY <1>2, <2>0, <2>2 DEF IInv, Covering, Covered, Rankable, Embedded
    <2>3. QED
      BY <1>2, <2>1, <2>2 DEF Promised
  <1>3. QED
    BY <1>1, <1>2

\* A step replaces one document, removes some, or leaves them all.
LEMMA DocumentSteps ==
  ASSUME IInv, [Next]_vars
  PROVE  \/ docs' = docs
         \/ \E d \in Docs, v \in Versions : docs' = [docs EXCEPT ![d] = v]
         \/ \E gone \in SUBSET Docs : docs' = [d \in Docs |-> IF d \in gone THEN NoDoc ELSE docs[d]]
  <1>1. ASSUME NEW p \in Procs, Replace(p)
        PROVE  \E d \in Docs, v \in Versions : docs' = [docs EXCEPT ![d] = v]
    BY <1>1 DEF Replace, At, IInv, TypeOK, Placed
  <1>2. ASSUME NEW p \in Procs, Step(p)
        PROVE  docs' = docs \/ Replace(p) \/ \E gone \in SUBSET Docs : Drop(gone)
    BY <1>2, TableSteps DEF IInv, NewGeneration, WriteVectors, Activate
  <1>3. ASSUME NEW s \in Searchers, Read(s) PROVE docs' = docs
    BY <1>3 DEF Read, BeginSearch, SearchFails, EndSearch
  <1>4. QED
    BY <1>1, <1>2, <1>3 DEF Next, Drop, vars

\* Every step of the writers and of the searches is a step of the view or
\* changes nothing in it.
THEOREM StoreIsAView == Spec => ImplementsView
  <1>1. Init => Abstract!Init
    BY DEF Init, Abstract!Init, Promised, Rankable, Scope, Neighbours, Active, NoGen
  <1>2. IInv /\ IInv' /\ PromiseKept /\ PromiseKept' /\ [Next]_vars
          => [Abstract!Next]_<<docs, Promised>>
    <2> SUFFICES ASSUME IInv, IInv', PromiseKept, PromiseKept', [Next]_vars
                 PROVE  Abstract!Next \/ (docs' = docs /\ Promised' = Promised)
      OBVIOUS
    <2>1. Promised = ChunksIn(docs) /\ Promised' = ChunksIn(docs')
      BY DEF PromiseKept, Chunks
    <2>2. Promised' = Abstract!ViewOf(docs')
      BY <2>1 DEF Abstract!ViewOf, ChunksIn
    <2>3. QED
      BY <2>1, <2>2, DocumentSteps DEF Abstract!Next, Abstract!Replace, Abstract!Remove
  <1>3. QED
    BY <1>1, <1>2, PromisedIsStored, StoreInvariant, PTL DEF Spec, ImplementsView, Abstract!Spec
=============================================================================
