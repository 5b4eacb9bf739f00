---------------------------- MODULE FlagQueries ----------------------------
(***************************************************************************)
(* The two reads of api/flags.py: a client that walks GET /flags page by   *)
(* page, and GET /flags/{id}/proof, with the signature it answers for      *)
(* (schemas.py, attestation/signer.py, attestation/repo.py).               *)
(*                                                                         *)
(* The table changes between two pages, as FlagTable allows; the agent is  *)
(* restarted, also with another key.  Filters on columns that never change *)
(* (address, since_ms) only make the table smaller and are left out.       *)
(***************************************************************************)
EXTENDS FlagTable, AgentIdentity

CONSTANTS
  MaxLimit   \* _MAX_LIMIT

ASSUME QueriesAssumption == MaxLimit \in Nat \ {0} /\ MaxId \in Nat \ {0}

VARIABLES
  sig,       \* the column sig: who signed which body
  cursor,    \* before_id of the next page
  limit,     \* limit of the walk
  include,   \* include_superseded of the walk
  got,       \* the ids the walk has returned
  stood      \* history: what was to be seen when the walk began

walk == <<cursor, limit, include, got, stood>>
vars == <<ftVars, idVars, sig, walk>>

Start == MaxId + 1    \* no before_id
Done == 0             \* next_before_id is null

(* AttestationBody, by the fields that tell rows apart: what is signed is  *)
(* what a Row holds.                                                       *)
Body == Row

NoSig == [key |-> "unsigned"]
Sig == [key : Key, over : Body]

FQTypeOK ==
  /\ IdTypeOK
  /\ table \in [FlagId -> Row \union {NoRow}]
  /\ nextId \in 1 .. MaxId + 1
  /\ open \subseteq 1 .. nextId - 1 /\ visible \subseteq 1 .. nextId - 1
  /\ open \cap visible = {}
  /\ sig \in [FlagId -> Sig \union {NoSig}]
  /\ cursor \in Done .. Start /\ limit \in 1 .. MaxLimit /\ include \in BOOLEAN
  /\ got \subseteq visible /\ stood \subseteq visible

FQInit ==
  /\ Init /\ IdInit
  /\ sig = [i \in FlagId |-> NoSig]
  /\ cursor = Done /\ limit = 1 /\ include = FALSE /\ got = {} /\ stood = {}

-----------------------------------------------------------------------------
(* AttestationSigner.sign and insert_attestation: the signature is over    *)
(* the body, the columns are filled from it.                               *)
SignAndInsert(row) ==
  /\ serving
  /\ Draw(row)
  /\ sig' = [sig EXCEPT ![nextId] = [key |-> signer, over |-> row]]
  /\ UNCHANGED <<idVars, walk>>

(* flag_proof: the body of the row, and the address of the running signer. *)
FlagProof(i) == [canonical_body |-> table[i], sig |-> sig[i], signer_address |-> signer]

(* The signature recovers to its signer over the very bytes it was made    *)
(* for, and to some useless address else.                                  *)
Recover(s, body) == IF s.over = body THEN s.key ELSE "nobody"

(* The process is restarted: its transactions are gone. *)
Restart ==
  /\ BootSigner
  /\ Abandon(open)
  /\ UNCHANGED <<sig, walk>>

-----------------------------------------------------------------------------
Superseded(i) == \E j \in visible : table[j].supersedes = i

(* Mutants of Shown: the cursor's row is shown again; corrections above    *)
(* the cursor do not count.                                                *)
ShownThrough(all, before) ==
  {i \in visible : i <= before /\ (all \/ ~\E j \in visible : table[j].supersedes = i)}

ShownBelow(all, before) ==
  {i \in visible : i < before
     /\ (all \/ ~\E j \in visible : j < before /\ table[j].supersedes = i)}

(* The anti-join of list_flags with its cursor. *)
Shown(all, before) == {i \in visible : i < before /\ (all \/ ~Superseded(i))}

(* ORDER BY id DESC LIMIT limit *)
Page == LET rows == Shown(include, cursor)
        IN {i \in rows : Cardinality({j \in rows : j > i}) < limit}

(* Mutants of NextBeforeId: off by one, up or down. *)
NextBeforeIdHigh(page) ==
  IF Cardinality(page) = limit THEN (CHOOSE i \in page : \A j \in page : i <= j) + 1 ELSE Done

NextBeforeIdLow(page) ==
  IF Cardinality(page) = limit THEN (CHOOSE i \in page : \A j \in page : i <= j) - 1 ELSE Done

NextBeforeId(page) ==
  IF Cardinality(page) = limit THEN CHOOSE i \in page : \A j \in page : i <= j ELSE Done

StartWalk(all, n) ==
  /\ cursor = Done
  /\ n \in 1 .. MaxLimit
  /\ limit' = n
  /\ cursor' = Start
  /\ include' = all
  /\ got' = {}
  /\ stood' = Shown(all, Start)
  /\ UNCHANGED <<ftVars, idVars, sig>>

(* list_flags *)
ListFlags ==
  /\ serving
  /\ cursor # Done
  /\ got' = got \union Page
  /\ cursor' = NextBeforeId(Page)
  /\ UNCHANGED <<ftVars, idVars, sig, limit, include, stood>>

FQNext ==
  \/ \E row \in Row : SignAndInsert(row)
  \/ \E S \in (SUBSET open) \ {{}} :
       (Commit(S) \/ Abandon(S)) /\ UNCHANGED <<idVars, sig, walk>>
  \/ \E all \in BOOLEAN, n \in 1 .. MaxLimit : StartWalk(all, n)
  \/ ListFlags
  \/ Restart
  \/ (Operate \/ \E readable \in BOOLEAN : LoadIdentity(readable))
       /\ UNCHANGED <<ftVars, sig, walk>>

(* The client asks for the next page some time, and again after a restart, *)
(* and a process that boots comes up.                                      *)
FQFairness ==
  /\ SF_vars(ListFlags)
  /\ WF_vars((\E readable \in BOOLEAN : LoadIdentity(readable))
                /\ UNCHANGED <<ftVars, sig, walk>>)

FQSpec == FQInit /\ [][FQNext]_vars /\ FQFairness

-----------------------------------------------------------------------------
(* "pages stay consistent even as new rows arrive": a walk that has ended  *)
(* has returned all that was to be seen when it began, though rows with    *)
(* lower and higher ids appeared meanwhile, except what was superseded     *)
(* before the walk got to it.                                              *)
WalkSeesWhatStood ==
  cursor = Done => \A i \in stood : i \in got \/ (~include /\ Superseded(i))

(* A walk that hides superseded rows never returns both a flag and its     *)
(* correction, on whatever pages and however they were committed.          *)
NeverFlagWithItsCorrection ==
  ~include => \A i, j \in got : table[j].supersedes # i

(* Each page lies below all that the walk has returned, and the cursor     *)
(* moves down past it: whatever is committed or corrected between two      *)
(* requests, no row comes twice and no walk has more pages than ids.       *)
PagesGoDown ==
  [][cursor # Done /\ walk' # walk => cursor' < cursor /\ Page \cap got = {}]_vars

(* A walk ends, although rows keep arriving. *)
WalkEnds == cursor # Done ~> cursor = Done

(* "the chain of identity statements is the audit trail": the chain that   *)
(* /agent-identity points to, if to any, names the key of every committed  *)
(* flag, in whatever order keys are generated, anchored and put to use and *)
(* the process is restarted in between; except the keys that a process was *)
(* started with before they had a statement, or that an upload without     *)
(* --supersedes cut off, and these only until a process reads a file that  *)
(* names them.                                                             *)
ChainNamesEverySigner ==
  serving /\ anchor # {} => \A i \in visible : sig[i].key \in anchor \union orphaned

(* "recovers the signer from `sig`, and compares against `signer_address`" *)
(* (schemas.py), "Historical flags remain verifiable under the old key"    *)
(* (docs/specs/arweave-flag-storage.md): the proof of every committed flag *)
(* passes that comparison.  Not so after the key was replaced.             *)
ProofMatchesAddress ==
  serving => \A i \in visible :
    LET proof == FlagProof(i)
    IN Recover(proof.sig, proof.canonical_body) = proof.signer_address
=============================================================================
