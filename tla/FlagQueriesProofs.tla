------------------------- MODULE FlagQueriesProofs -------------------------
(***************************************************************************)
(* Proofs about the reads of api/flags.py, for any transactions, rules,    *)
(* keys, bounds and page sizes, and any writers that keep to FlagTable.    *)
(***************************************************************************)
EXTENDS FlagQueries, Extrema, FiniteSetTheorems

(* ORDER BY id DESC LIMIT n of any rows. *)
FirstOf(rows, n) == {i \in rows : Cardinality({j \in rows : j > i}) < n}

(* A page goes down to its least row without a gap. *)
LEMMA PageHasNoGap ==
  ASSUME NEW rows, IsFiniteSet(rows), \A i \in rows : i \in Nat, NEW n \in Nat,
         NEW m \in FirstOf(rows, n), NEW i \in rows, m <= i
  PROVE  i \in FirstOf(rows, n)
<1> DEFINE Above(k) == {j \in rows : j > k}
<1>1. m \in rows /\ Cardinality(Above(m)) < n  BY DEF FirstOf
<1>2. Above(m) \in SUBSET rows /\ Above(i) \in SUBSET Above(m)  BY <1>1
<1> HIDE DEF Above
<1>3. IsFiniteSet(Above(m))  BY <1>2, FS_Subset
<1>4. IsFiniteSet(Above(i)) /\ Cardinality(Above(i)) <= Cardinality(Above(m))
  BY <1>2, <1>3, FS_Subset
<1>5. Cardinality(Above(i)) \in Nat /\ Cardinality(Above(m)) \in Nat
  BY <1>3, <1>4, FS_CardinalityType
<1>6. Cardinality(Above(i)) < n  BY <1>1, <1>4, <1>5
<1> QED  BY <1>6 DEF FirstOf, Above

(* A page that is not full has all the rows there are: the least row of a  *)
(* page has n - 1 above it at most, and the greatest row that is missing   *)
(* from a page has n above it at least.                                    *)
LEMMA ShortPageIsLast ==
  ASSUME NEW rows, IsFiniteSet(rows), NEW b \in Nat, \A i \in rows : i \in Nat /\ i <= b,
         NEW n \in Nat \ {0}, Cardinality(FirstOf(rows, n)) # n
  PROVE  FirstOf(rows, n) = rows
<1> DEFINE page == FirstOf(rows, n)
           Above(k) == {j \in rows : j > k}
<1>1. SUFFICES ASSUME rows \ page # {} PROVE FALSE  BY DEF FirstOf
<1>2. page \in SUBSET rows /\ \A k : Above(k) \in SUBSET rows  BY DEF FirstOf
<1>3. PICK r \in rows \ page : \A s \in rows \ page : s <= r
  <2> DEFINE missing == rows \ page
  <2>1. missing # {} /\ (\A s \in missing : s \in Int /\ s <= b) /\ b \in Int  BY <1>1
  <2> HIDE DEF missing
  <2>2. \E r \in missing : \A s \in missing : s <= r  BY <2>1, Greatest
  <2> QED  BY <2>2 DEF missing
<1>4. page = Above(r)
  <2>1. ASSUME NEW p \in page PROVE p > r
    BY <1>2, <1>3, PageHasNoGap
  <2>2. ASSUME NEW j \in Above(r) PROVE j \in page  BY <1>3
  <2> QED  BY <1>2, <2>1, <2>2
<1>5. IsFiniteSet(page) /\ Cardinality(page) \in Nat
  <2> HIDE DEF page
  <2> QED  BY <1>2, FS_Subset, FS_CardinalityType
<1>6. Cardinality(page) >= n
  <2>1. ~(Cardinality(Above(r)) < n)  BY <1>3 DEF FirstOf
  <2> HIDE DEF page, Above
  <2> QED  BY <1>4, <1>5, <2>1
<1>7. page # {}
  <2> HIDE DEF page
  <2> QED  BY <1>5, <1>6, FS_EmptySet
<1>8. PICK m \in page : \A p \in page : m <= p
  <2>1. \A p \in page : p \in Nat  BY <1>2
  <2> HIDE DEF page
  <2> QED  BY <1>7, <2>1, LeastNatural
<1>9. page \ {m} = Above(m)
  <2>1. ASSUME NEW j \in Above(m) PROVE j \in page \ {m}
    BY <1>2, <1>8, PageHasNoGap
  <2>2. ASSUME NEW p \in page \ {m} PROVE p \in Above(m)
    BY <1>2, <1>8
  <2> QED  BY <2>1, <2>2
<1>10. Cardinality(page \ {m}) < n  BY <1>8, <1>9 DEF FirstOf
<1>11. Cardinality(page \ {m}) = Cardinality(page) - 1
  <2> HIDE DEF page
  <2> QED  BY <1>5, <1>8, FS_RemoveElement
<1> HIDE DEF page
<1> QED  BY <1>5, <1>6, <1>10, <1>11 DEF page

-----------------------------------------------------------------------------
(* The inductive invariant.  A correction has a greater id than what it    *)
(* corrects; and who signs, or has signed, is named by the file that the   *)
(* next process will read and by the chain that this one serves, unless    *)
(* the key is orphaned.                                                    *)
SuccessorsAreLater == \A i \in FlagId : i < nextId => table[i].supersedes < i

Named(k) ==
  /\ k \in file \union orphaned
  /\ serving /\ anchor # {} => k \in anchor \union orphaned

SignersAreNamed ==
  /\ Named(signer)
  /\ \A i \in FlagId : i < nextId => Named(sig[i].key)

(* A walk has returned nothing below its cursor, and all that it should    *)
(* have from there on.                                                     *)
GotIsBehind == cursor # Done => \A i \in got : cursor <= i

SeenSoFar ==
  \A i \in stood : cursor <= i => i \in got \/ (~include /\ Superseded(i))

FQInv ==
  /\ FQTypeOK
  /\ SuccessorsAreLater
  /\ SignersAreNamed
  /\ GotIsBehind
  /\ SeenSoFar
  /\ NeverFlagWithItsCorrection

(* An empty table, an installed key, and nobody walking. *)
LEMMA QueriesInit == FQInit => FQInv
<1> SUFFICES ASSUME FQInit PROVE FQInv  OBVIOUS
<1> USE QueriesAssumption DEF FQInit, Init, IdInit, FlagId
<1>1. FQTypeOK
  <2>1. IdTypeOK  BY DEF IdTypeOK
  <2>2. /\ table \in [FlagId -> Row \union {NoRow}]
        /\ sig \in [FlagId -> Sig \union {NoSig}]
    OBVIOUS
  <2>3. nextId \in 1 .. MaxId + 1 /\ cursor \in Done .. Start /\ limit \in 1 .. MaxLimit
    BY DEF Done, Start
  <2> QED  BY <2>1, <2>2, <2>3 DEF FQTypeOK
<1>2. SuccessorsAreLater  BY DEF SuccessorsAreLater
<1>3. SignersAreNamed  BY DEF SignersAreNamed, Named
<1>4. GotIsBehind /\ SeenSoFar /\ NeverFlagWithItsCorrection
  BY DEF GotIsBehind, SeenSoFar, NeverFlagWithItsCorrection
<1> QED  BY <1>1, <1>2, <1>3, <1>4 DEF FQInv

-----------------------------------------------------------------------------
(* The flush of a signed row, under an id that nobody has seen. *)
LEMMA SignKeepsInv ==
  ASSUME FQInv, NEW row \in Row, SignAndInsert(row)
  PROVE  FQInv'
<1> USE QueriesAssumption DEF FQInv, FQTypeOK
<1>1. /\ nextId \in FlagId /\ nextId' = nextId + 1 /\ serving
      /\ table' = [table EXCEPT ![nextId] = row]
      /\ sig' = [sig EXCEPT ![nextId] = [key |-> signer, over |-> row]]
      /\ open' = open \union {nextId} /\ UNCHANGED visible
      /\ UNCHANGED <<idVars, walk>> /\ MayFollow(row)
  BY DEF SignAndInsert, Draw, FlagId
<1>2. row.supersedes \in FlagId \union {0}  BY DEF Row
<1>3. [key |-> signer, over |-> row] \in Sig  BY DEF Sig, Body, IdTypeOK
<1>4. FQTypeOK'
  <2>1. IdTypeOK'  BY <1>1 DEF IdTypeOK, idVars
  <2>2. table' \in [FlagId -> Row \union {NoRow}]  BY <1>1
  <2>3. /\ nextId' \in 1 .. MaxId + 1
        /\ open' \subseteq 1 .. nextId' - 1 /\ visible' \subseteq 1 .. nextId' - 1
        /\ open' \cap visible' = {}
    BY <1>1 DEF FlagId
  <2>4. sig' \in [FlagId -> Sig \union {NoSig}]  BY <1>1, <1>3
  <2> QED  BY <1>1, <2>1, <2>2, <2>3, <2>4 DEF walk
<1>5. \A i \in FlagId : i < nextId' => i < nextId \/ i = nextId  BY <1>1 DEF FlagId
<1>6. \A i \in FlagId : i < nextId => table'[i] = table[i] /\ sig'[i] = sig[i]
  BY <1>1 DEF FlagId
<1>7. table'[nextId] = row /\ sig'[nextId] = [key |-> signer, over |-> row]
  BY <1>1
<1>8. SuccessorsAreLater'
  <2>1. row.supersedes < nextId
    BY <1>1, <1>2 DEF MayFollow, FlagId
  <2> QED  BY <1>5, <1>6, <1>7, <2>1 DEF SuccessorsAreLater
<1>9. SignersAreNamed'
  <2>1. sig'[nextId].key = signer  BY <1>7
  <2> QED  BY <1>1, <1>5, <1>6, <2>1 DEF SignersAreNamed, Named, idVars
<1>10. \A i \in visible : table'[i] = table[i]  BY <1>6 DEF FlagId
<1>11. GotIsBehind' /\ SeenSoFar' /\ NeverFlagWithItsCorrection'
  BY <1>1, <1>10 DEF GotIsBehind, SeenSoFar, NeverFlagWithItsCorrection, Superseded, walk
<1> QED  BY <1>4, <1>8, <1>9, <1>11

(* Rows become visible, or vanish with their transaction. *)
LEMMA EndsKeepQueries ==
  ASSUME FQInv, UNCHANGED <<table, nextId, sig, walk>>,
         open' \subseteq open, visible \subseteq visible', visible' \subseteq visible \union open,
         open' \cap visible' = {},
         IdTypeOK', SignersAreNamed'
  PROVE  FQInv'
<1> USE DEF FQInv, walk
<1>1. FQTypeOK'  BY DEF FQTypeOK
<1>2. SuccessorsAreLater'  BY DEF SuccessorsAreLater
<1>3. SeenSoFar'  BY DEF SeenSoFar, Superseded
<1>4. GotIsBehind' /\ NeverFlagWithItsCorrection'
  BY DEF GotIsBehind, NeverFlagWithItsCorrection
<1> QED  BY <1>1, <1>2, <1>3, <1>4

(* A new walk has everything before it. *)
LEMMA StartKeepsInv ==
  ASSUME FQInv, NEW all \in BOOLEAN, NEW n \in 1 .. MaxLimit, StartWalk(all, n)
  PROVE  FQInv'
<1> USE QueriesAssumption DEF FQInv, StartWalk, ftVars, idVars
<1>1. \A i \in visible : i < Start  BY DEF FQTypeOK, Start
<1>2. FQTypeOK'
  <2>1. cursor' \in Done .. Start /\ limit' \in 1 .. MaxLimit /\ include' \in BOOLEAN
    BY DEF Done, Start
  <2>2. got' \subseteq visible' /\ stood' \subseteq visible'  BY DEF Shown
  <2> QED  BY <2>1, <2>2 DEF FQTypeOK, IdTypeOK
<1>3. SuccessorsAreLater' /\ SignersAreNamed'
  BY DEF SuccessorsAreLater, SignersAreNamed, Named
<1>4. SeenSoFar'
  <2>1. \A i \in stood' : i < cursor' /\ i \in Int /\ cursor' \in Int
    BY <1>1 DEF Shown, Start, FQTypeOK
  <2>2. \A i \in stood' : ~(cursor' <= i)  BY <2>1
  <2> QED  BY <2>2 DEF SeenSoFar
<1>5. GotIsBehind' /\ NeverFlagWithItsCorrection'
  BY DEF GotIsBehind, NeverFlagWithItsCorrection
<1> QED  BY <1>2, <1>3, <1>4, <1>5

(* A page of rows below the cursor, and how the next cursor is drawn. *)
LEMMA PageFacts ==
  ASSUME FQInv, cursor # Done, ListFlags
  PROVE  /\ Page \subseteq Shown(include, cursor)
         /\ cursor' \in Done .. Start
         /\ cursor' # Done => cursor' \in Page /\ \A j \in Page : cursor' <= j
         /\ \A i \in Shown(include, cursor) : cursor' <= i => i \in Page
<1> USE QueriesAssumption DEF FQInv
<1> DEFINE rows == Shown(include, cursor)
           page == FirstOf(rows, limit)
<1>1. \A i \in rows : i \in Nat /\ i <= MaxId /\ i # Done /\ i \in Done .. Start
  BY DEF Shown, FQTypeOK, Done, Start
<1>2. limit \in Nat \ {0} /\ MaxId \in Nat  BY DEF FQTypeOK
<1>3. Page = page /\ cursor' = NextBeforeId(page)  BY DEF Page, FirstOf, ListFlags
<1>4. IsFiniteSet(rows)
  <2>1. rows \in SUBSET Nat /\ \A i \in rows : i <= MaxId  BY <1>1
  <2> HIDE DEF rows
  <2> QED  BY <1>2, <2>1, FS_BoundedSetOfNaturals
<1>5. page \subseteq rows  BY DEF FirstOf
<1>6. CASE Cardinality(page) = limit
  <2>1. page # {}
    <3> HIDE DEF page, rows
    <3>1. IsFiniteSet(page)  BY <1>4, <1>5, FS_Subset
    <3> QED  BY <1>2, <1>6, FS_EmptySet
  <2>2. \E m \in page : \A j \in page : m <= j
    <3>1. \A j \in page : j \in Nat  BY <1>1, <1>5
    <3> HIDE DEF page, rows
    <3> QED  BY <2>1, <3>1, LeastNatural
  <2>3. cursor' \in page /\ \A j \in page : cursor' <= j
    <3>1. cursor' = CHOOSE i \in page : \A j \in page : i <= j
      BY <1>3, <1>6 DEF NextBeforeId
    <3> HIDE DEF page, rows
    <3> QED  BY <2>2, <3>1, Zenon
  <2>4. \A i \in rows : cursor' <= i => i \in page
    <3> HIDE DEF rows
    <3> QED  BY <1>1, <1>2, <1>4, <2>3, PageHasNoGap
  <2> HIDE DEF page, rows
  <2>5. Page = page /\ Shown(include, cursor) = rows  BY <1>3 DEF rows
  <2> QED  BY <1>1, <1>5, <2>3, <2>4, <2>5
<1>7. CASE Cardinality(page) # limit
  <2>1. page = rows
    <3> HIDE DEF rows
    <3> QED  BY <1>1, <1>2, <1>4, <1>7, ShortPageIsLast
  <2>2. cursor' = Done  BY <1>3, <1>7 DEF NextBeforeId
  <2> QED  BY <1>3, <2>1, <2>2 DEF Done, Start
<1> QED  BY <1>6, <1>7

(* The next page.  What is returned is below the cursor and not corrected, *)
(* so that neither its correction nor what it corrects is returned with it *)
(* or later.                                                               *)
LEMMA PageKeepsInv ==
  ASSUME FQInv, ListFlags
  PROVE  FQInv'
<1> USE DEF FQInv
<1>1. /\ cursor # Done /\ got' = got \union Page
      /\ UNCHANGED <<ftVars, idVars, sig, limit, include, stood>>
  BY DEF ListFlags
<1>2. /\ Page \subseteq Shown(include, cursor)
      /\ cursor' \in Done .. Start
      /\ cursor' # Done => cursor' \in Page /\ \A j \in Page : cursor' <= j
      /\ \A i \in Shown(include, cursor) : cursor' <= i => i \in Page
  BY <1>1, PageFacts
<1>3. Shown(include, cursor) \subseteq visible /\ \A i \in Shown(include, cursor) : i < cursor
  BY DEF Shown
<1>4. visible \subseteq FlagId /\ (\A i \in visible : i \in Int /\ i < nextId)
        /\ cursor \in Int /\ cursor' \in Int
  BY <1>2, QueriesAssumption DEF FQTypeOK, FlagId, Done, Start
<1> HIDE DEF ListFlags
<1>5. FQTypeOK'
  BY <1>1, <1>2, <1>3 DEF FQTypeOK, IdTypeOK, ftVars, idVars
<1>6. SuccessorsAreLater' /\ SignersAreNamed'
  BY <1>1 DEF SuccessorsAreLater, SignersAreNamed, Named, ftVars, idVars
<1>7. GotIsBehind'
  <2>1. SUFFICES ASSUME cursor' # Done, NEW i \in got' PROVE cursor' <= i  BY DEF GotIsBehind
  <2>2. CASE i \in Page  BY <1>2, <2>1, <2>2
  <2>3. CASE i \in got
    <3>1. cursor <= i /\ cursor' < cursor  BY <1>1, <1>2, <1>3, <2>1, <2>3 DEF GotIsBehind
    <3>2. i \in Int  BY <1>4, <2>3 DEF FQTypeOK
    <3> QED  BY <1>4, <3>1, <3>2
  <2> QED  BY <1>1, <2>2, <2>3
<1>8. SeenSoFar'
  <2>1. SUFFICES ASSUME NEW i \in stood, cursor' <= i, ~(~include /\ Superseded(i))
                 PROVE  i \in got'
    BY <1>1 DEF SeenSoFar, Superseded, ftVars
  <2>2. i \in visible /\ i \in Int  BY <1>4 DEF FQTypeOK
  <2>3. CASE cursor <= i  BY <1>1, <2>1, <2>3 DEF SeenSoFar
  <2>4. CASE i < cursor
    <3>1. include \/ ~Superseded(i)  BY <2>1 DEF FQTypeOK
    <3>2. i \in Shown(include, cursor)  BY <2>2, <2>4, <3>1 DEF Shown
    <3> QED  BY <1>1, <1>2, <2>1, <3>2
  <2> QED  BY <1>4, <2>2, <2>3, <2>4
<1>9. NeverFlagWithItsCorrection'
  <2>1. SUFFICES ASSUME ~include, NEW i \in got', NEW j \in got', table[j].supersedes = i
                 PROVE  FALSE
    BY <1>1 DEF NeverFlagWithItsCorrection, ftVars
  <2>2. i \in visible /\ j \in visible  BY <1>1, <1>2, <1>3 DEF FQTypeOK
  <2>3. Superseded(i)  BY <2>1, <2>2 DEF Superseded
  <2>4. i \notin Page  BY <1>2, <2>1, <2>3 DEF Shown, FQTypeOK
  <2>5. i \in got /\ j \notin got  BY <1>1, <2>1, <2>4 DEF NeverFlagWithItsCorrection
  <2>6. cursor <= i /\ j < cursor  BY <1>1, <1>2, <1>3, <2>5 DEF GotIsBehind
  <2>7. i < j  BY <1>4, <2>1, <2>2 DEF SuccessorsAreLater
  <2> QED  BY <1>4, <2>2, <2>6, <2>7
<1> QED  BY <1>5, <1>6, <1>7, <1>8, <1>9

-----------------------------------------------------------------------------
(* A key that leaves the file is orphaned, and so is one that a process    *)
(* starts with and the file does not name; a key that is no longer         *)
(* orphaned is in the file that was read.                                  *)
LEMMA KeysStayNamed ==
  ASSUME FQInv, UNCHANGED <<nextId, sig>>,
         BootSigner \/ (\E readable \in BOOLEAN : LoadIdentity(readable)) \/ Operate
  PROVE  IdTypeOK' /\ SignersAreNamed'
<1> USE DEF FQInv, FQTypeOK, IdTypeOK, SignersAreNamed, Named
<1>1. CASE BootSigner  BY <1>1 DEF BootSigner
<1>2. ASSUME NEW readable \in BOOLEAN, LoadIdentity(readable)
      PROVE  IdTypeOK' /\ SignersAreNamed'
  BY <1>2 DEF LoadIdentity
<1>3. ASSUME NEW k \in Key, NEW zeros \in BOOLEAN, NEW supersedes \in BOOLEAN,
             UploadAgentIdentity(k, zeros, supersedes)
      PROVE  IdTypeOK' /\ SignersAreNamed'
  BY <1>3 DEF UploadAgentIdentity
<1>4. ASSUME NEW k \in Key, ReplaceSecret(k) PROVE IdTypeOK' /\ SignersAreNamed'
  BY <1>4 DEF ReplaceSecret
<1> QED  BY <1>1, <1>2, <1>3, <1>4 DEF Operate

(* Every step keeps the invariant. *)
LEMMA QueriesStep == FQInv /\ [FQNext]_vars => FQInv'
<1> SUFFICES ASSUME FQInv, [FQNext]_vars PROVE FQInv'  OBVIOUS
<1>1. ASSUME UNCHANGED idVars, UNCHANGED <<nextId, sig>> PROVE IdTypeOK' /\ SignersAreNamed'
  BY <1>1 DEF FQInv, FQTypeOK, IdTypeOK, SignersAreNamed, Named, idVars
<1>2. open \cap visible = {}  BY DEF FQInv, FQTypeOK
<1>3. ASSUME NEW S \in SUBSET open, Commit(S) \/ Abandon(S),
             UNCHANGED <<idVars, sig, walk>>
      PROVE  FQInv'
  <2>1. UNCHANGED idVars /\ UNCHANGED <<nextId, sig>>  BY <1>3 DEF Commit, Abandon
  <2> QED  BY <1>1, <1>2, <1>3, <2>1, EndsKeepQueries DEF Commit, Abandon
<1>4. CASE Restart
  <2>1. IdTypeOK' /\ SignersAreNamed'  BY <1>4, KeysStayNamed DEF Restart, Abandon
  <2> QED  BY <1>2, <1>4, <2>1, EndsKeepQueries DEF Restart, Abandon
<1>5. CASE (Operate \/ \E readable \in BOOLEAN : LoadIdentity(readable)) /\ UNCHANGED <<ftVars, sig, walk>>
  <2>1. IdTypeOK' /\ SignersAreNamed'  BY <1>5, KeysStayNamed DEF ftVars
  <2> QED  BY <1>2, <1>5, <2>1, EndsKeepQueries DEF ftVars
<1>6. CASE UNCHANGED vars
  <2>1. IdTypeOK' /\ SignersAreNamed'  BY <1>1, <1>6 DEF vars, ftVars
  <2> QED  BY <1>2, <1>6, <2>1, EndsKeepQueries DEF vars, ftVars
<1> QED  BY <1>3, <1>4, <1>5, <1>6, SignKeepsInv, StartKeepsInv, PageKeepsInv DEF FQNext

(* The reads keep their inductive invariant in every run. *)
THEOREM QueriesInvariant == FQSpec => []FQInv
  BY QueriesInit, QueriesStep, PTL DEF FQSpec

(* The variables of table, walk and identity keep their types. *)
THEOREM QueriesTypes == FQSpec => []FQTypeOK
<1>1. FQInv => FQTypeOK  BY DEF FQInv
<1> QED  BY <1>1, QueriesInvariant, PTL

(* A walk that has ended has returned all that stood when it began and was *)
(* not corrected since, for any page size, any number of flags and any     *)
(* writers.                                                                *)
THEOREM PagesAreComplete == FQSpec => []WalkSeesWhatStood
<1>1. FQInv => WalkSeesWhatStood
  BY QueriesAssumption DEF FQInv, FQTypeOK, SeenSoFar, WalkSeesWhatStood, Done, FlagId
<1> QED  BY <1>1, QueriesInvariant, PTL

(* A walk over the current flags returns no flag with its correction.      *)
THEOREM PagesAgree == FQSpec => []NeverFlagWithItsCorrection
<1>1. FQInv => NeverFlagWithItsCorrection  BY DEF FQInv
<1> QED  BY <1>1, QueriesInvariant, PTL

(* A walk moves down with every page and returns no row twice, for any     *)
(* page size, any bound on the ids and any writers; so it has an end if    *)
(* its client goes on.                                                     *)
THEOREM PagesDescend == FQSpec => PagesGoDown
<1> DEFINE Descends == cursor # Done /\ walk' # walk => cursor' < cursor /\ Page \cap got = {}
<1>1. FQInv /\ [FQNext]_vars => [Descends]_vars
  <2> SUFFICES ASSUME FQInv, FQNext, cursor # Done, walk' # walk
               PROVE  cursor' < cursor /\ Page \cap got = {}
    BY DEF vars
  <2>1. ListFlags
    BY DEF FQNext, SignAndInsert, StartWalk, Restart
  <2>2. /\ Page \subseteq Shown(include, cursor)
        /\ cursor' \in Done .. Start
        /\ cursor' # Done => cursor' \in Page
    BY <2>1, PageFacts
  <2>3. \A i \in Shown(include, cursor) : i \in visible /\ i < cursor  BY DEF Shown
  <2>4. /\ \A i \in visible : i \in Int
        /\ cursor \in Int /\ cursor > Done /\ got \subseteq visible
    BY QueriesAssumption DEF FQInv, FQTypeOK, Done, Start
  <2>5. cursor' < cursor  BY <2>2, <2>3, <2>4
  <2>6. \A i \in got : cursor <= i  BY DEF FQInv, GotIsBehind
  <2> QED  BY <2>2, <2>3, <2>4, <2>5, <2>6
<1> QED  BY <1>1, QueriesInvariant, PTL DEF FQSpec, PagesGoDown

(* Whatever the order of uploads, secrets and restarts, whether statements *)
(* supersede one another or not and the file can be read or not: a key of  *)
(* a committed flag that the served chain does not name was put to use     *)
(* without a statement or cut off, and not read back since.                *)
THEOREM ChainMissesOnlyOrphans == FQSpec => []ChainNamesEverySigner
<1>1. FQInv => ChainNamesEverySigner
  BY QueriesAssumption
  DEF FQInv, FQTypeOK, SignersAreNamed, Named, ChainNamesEverySigner, FlagId
<1> QED  BY <1>1, QueriesInvariant, PTL
=============================================================================
