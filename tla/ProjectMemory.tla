---------------------------- MODULE ProjectMemory ---------------------------
(***************************************************************************)
(* Cross-project memory (memory/): each project keeps its own proj_memory, *)
(* creates entries, exports all it knows to a file and imports the files   *)
(* of others one entry at a time; an import may end half way and be run    *)
(* again. A row is trusted on arrival when its source_project is the name  *)
(* the importing process goes by, and otherwise once it is verified there. *)
(***************************************************************************)
EXTENDS Naturals, Sequences

CONSTANTS
    Projects,
    Names,
    NameOf,       \* DEVHARNESS_PROJECT_NAME of each project, or the default
    Entries,      \* entry ids (uuids)
    MemoryStamps  \* bound: the instants entries are created at

Nobody == "nobody"  \* the creator of an entry not yet created

ASSUME MemoryAssumption ==
    /\ Nobody \notin Projects
    /\ NameOf \in [Projects -> Names]
    /\ MemoryStamps \subseteq Nat

VARIABLES
    memory,     \* proj_memory of each project, in row order
    artifact,   \* the file each project exported last
    importing,  \* per project, what is left of the file it is importing
    creator,    \* history: the project that created each entry
    verifiedAt  \* history: the verifications [project, id]

memoryVars == <<memory, artifact, importing, creator, verifiedAt>>

Entry == [id : Entries, source : Names, created : MemoryStamps]

MemoryRow == [id : Entries, source : Names, created : MemoryStamps, trusted : BOOLEAN]

MemoryTypeOK ==
    /\ memory \in [Projects -> Seq(MemoryRow)]
    /\ artifact \in [Projects -> Seq(Entry)]
    /\ importing \in [Projects -> Seq(Entry)]
    /\ creator \in [Entries -> Projects \cup {Nobody}]
    /\ verifiedAt \subseteq Projects \X Entries

-----------------------------------------------------------------------------
Rows(p) == {memory[p][i] : i \in DOMAIN memory[p]}

Known(p, e) == \E r \in Rows(p) : r.id = e

\* Fault: a row is trusted on arrival whoever it comes from
ArrivesTrusted(p, e) ==
    [id |-> e.id, source |-> e.source, created |-> e.created, trusted |-> TRUE]

\* handle_memory_entry_created: INSERT OR IGNORE, trusted if the source has
\* this process's name
Arrival(p, e) ==
    [id |-> e.id, source |-> e.source, created |-> e.created, trusted |-> e.source = NameOf[p]]

Insert(p, e) ==
    memory' = IF Known(p, e.id) THEN memory
              ELSE [memory EXCEPT ![p] = Append(@, Arrival(p, e))]

MemoryInit ==
    /\ memory = [p \in Projects |-> <<>>]
    /\ artifact = [p \in Projects |-> <<>>]
    /\ importing = [p \in Projects |-> <<>>]
    /\ creator = [e \in Entries |-> Nobody]
    /\ verifiedAt = {}

\* create_memory_entry: a fresh id, stamped before it is appended
CreateEntry(p, e, at) ==
    /\ creator[e] = Nobody
    /\ creator' = [creator EXCEPT ![e] = p]
    /\ Insert(p, [id |-> e, source |-> NameOf[p], created |-> at])
    /\ UNCHANGED <<artifact, importing, verifiedAt>>

\* export_memory: every row, imported ones included, without its trust
Export(p) ==
    /\ artifact' = [artifact EXCEPT ![p] =
           [i \in DOMAIN memory[p] |->
               [id |-> memory[p][i].id, source |-> memory[p][i].source, created |-> memory[p][i].created]]]
    /\ UNCHANGED <<memory, importing, creator, verifiedAt>>

StartImport(p, q) ==
    /\ importing[p] = <<>> /\ artifact[q] # <<>>
    /\ importing' = [importing EXCEPT ![p] = artifact[q]]
    /\ UNCHANGED <<memory, artifact, creator, verifiedAt>>

\* one entry: skipped when known, or older than one known from its source
ImportEntry(p) ==
    /\ importing[p] # <<>>
    /\ LET e == Head(importing[p])
           stale == \E r \in Rows(p) : r.source = e.source /\ r.created > e.created
       IN  IF Known(p, e.id) \/ stale THEN UNCHANGED memory ELSE Insert(p, e)
    /\ importing' = [importing EXCEPT ![p] = Tail(@)]
    /\ UNCHANGED <<artifact, creator, verifiedAt>>

ImportKilled(p) ==
    /\ importing[p] # <<>>
    /\ importing' = [importing EXCEPT ![p] = <<>>]
    /\ UNCHANGED <<memory, artifact, creator, verifiedAt>>

\* memory_entry_verified
VerifyEntry(p, e) ==
    /\ Known(p, e) /\ <<p, e>> \notin verifiedAt
    /\ memory' = [memory EXCEPT ![p] =
           [i \in DOMAIN memory[p] |->
               IF memory[p][i].id = e THEN [memory[p][i] EXCEPT !.trusted = TRUE] ELSE memory[p][i]]]
    /\ verifiedAt' = verifiedAt \cup {<<p, e>>}
    /\ UNCHANGED <<artifact, importing, creator>>

MemoryNext ==
    \E p \in Projects :
        \/ \E e \in Entries, at \in MemoryStamps : CreateEntry(p, e, at)
        \/ Export(p)
        \/ \E q \in Projects : StartImport(p, q)
        \/ ImportEntry(p)
        \/ ImportKilled(p)
        \/ \E e \in Entries : VerifyEntry(p, e)

MemorySpec == MemoryInit /\ [][MemoryNext]_memoryVars

-----------------------------------------------------------------------------
(***************************************************************************)
(* Inv 17: trust is not passed on. A project trusts an entry it did not    *)
(* create only after verifying it itself, through any chain of exports and *)
(* imports and whatever the others verified; the exception is a project of *)
(* the same name, which two projects without a configured name have        *)
(* (handlers.py:390, memory/base.py: project_name).                        *)
(***************************************************************************)
TrustIsEarned ==
    \A p \in Projects : \A r \in Rows(p) :
        r.trusted => \/ NameOf[creator[r.id]] = NameOf[p]
                     \/ <<p, r.id>> \in verifiedAt

\* What the induction needs of the files.
SourcesAreTrue ==
    \A p \in Projects :
        \A e \in Rows(p) \cup {artifact[p][i] : i \in DOMAIN artifact[p]}
                         \cup {importing[p][i] : i \in DOMAIN importing[p]} :
            creator[e.id] # Nobody /\ e.source = NameOf[creator[e.id]]
=============================================================================
