------------------------------ MODULE Knowledge ------------------------------
(***************************************************************************)
(* The typed knowledge of a workspace (gencode/features/knowledge.py):     *)
(* records in Markdown files, an index derived from them, and the history  *)
(* of replaced records.  Runtimes propose, a person approves and rejects.  *)
(* Within a process the store's lock makes every operation one at a time;  *)
(* processes share only the files, so an operation reads first and then    *)
(* writes file after file, and may be cut short by a crash.  A text is a   *)
(* member of Bodies, its hash is the text itself.  Definitions marked      *)
(* faulty are changes to the code under which a property fails; nothing    *)
(* else uses them.                                                         *)
(***************************************************************************)
EXTENDS Integers, Sequences, SequencesExt

CONSTANTS
  Names,     \* record ids that are proposed
  Bodies,    \* texts
  Poisoned,  \* texts the quality gate finds fault with
  Stores,    \* processes with a store
  MaxOps,    \* bound: operations
  MaxCrashes \* bound: processes that die during an operation

ASSUME KnowledgeAssumptions ==
  /\ Poisoned \subseteq Bodies /\ "own" \notin Bodies
  /\ {MaxOps, MaxCrashes} \subseteq Nat

VARIABLES
  records,   \* the Markdown files: file -> record, or Missing
  archive,   \* history: <<name, version, body>>
  index,     \* the search index: file -> record, or Missing
  signed,    \* per process: the signature of the files it indexed last
  writes,    \* per process: what its operation still has to do
  approved,  \* name -> the texts a person has approved for it
  ops, deaths
knowledgeVars == <<records, archive, index, signed, writes, approved, ops, deaths>>

(* A record has the name it was proposed under, or is a proposal for the    *)
(* active record of that name; a proposal is named after its text.         *)
RecordFiles == Names \X (Bodies \cup {"own"})
Main(n) == <<n, "own">>

Missing == [status |-> "missing", body |-> "own", version |-> 0]
Record(s, b, v) == [status |-> s, body |-> b, version |-> v]
Active(r) == r.status = "active"

KnowledgeInit ==
  /\ records = [f \in RecordFiles |-> Missing] /\ archive = {}
  /\ index = records
  /\ signed = [p \in Stores |-> <<>>] /\ writes = [p \in Stores |-> <<>>]
  /\ approved = [n \in Names |-> {}]
  /\ ops = 0 /\ deaths = 0

-----------------------------------------------------------------------------
(* The steps an operation is made of.                                      *)
Write(f, r)      == [do |-> "write", file |-> f, record |-> r]
Archive(n, r)    == [do |-> "archive", file |-> Main(n), record |-> r]
Sync             == [do |-> "sync"]

(* _retrieval_reject_reason and the gate of approve ask the same question. *)
Violates(r) == r.body \in Poisoned

(* upsert of what nobody trusts: an active record is left alone and the    *)
(* text becomes a proposal for it.                                         *)
Target(n, b) == IF Active(records[Main(n)]) THEN <<n, b>> ELSE Main(n)

Upsert(n, b) ==
  LET file   == Target(n, b)
      parent == records[IF file = Main(n) THEN file ELSE Main(n)]
      status == IF b \in Poisoned THEN "quarantined" ELSE "candidate"
  IN  <<Write(file, Record(status, b, parent.version + 1)), Sync>>

(* approve, of a record that is not quarantined and passes the gate.  What *)
(* a proposal replaces is kept in the history first.                       *)
MayApprove(f) ==
  /\ records[f] # Missing
  /\ records[f].status # "quarantined" /\ ~Violates(records[f])

NotKept(n, old) == <<>>                                              \* faulty
Preserved(n, old) == IF old = Missing THEN <<>> ELSE <<Archive(n, old)>>

Largest(a, b) == IF a > b THEN a ELSE b
NextVersion(r, old) == IF old = Missing THEN r.version
                       ELSE Largest(r.version, old.version + 1)

Approval(f) ==
  LET r   == records[f]
      n   == f[1]
      old == records[Main(n)]
  IN  IF f = Main(n)
      THEN <<Write(f, [r EXCEPT !.status = "active"]), Sync>>
      ELSE Preserved(n, old)
           \o << Write(Main(n), Record("active", r.body, NextVersion(r, old))),
                 Write(f, [r EXCEPT !.status = "superseded"]), Sync >>

Rejection(f) == <<Write(f, [records[f] EXCEPT !.status = "rejected"]), Sync>>

-----------------------------------------------------------------------------
(* An operation begins: it has read the files it depends on.               *)
Start(p, steps) ==
  /\ ops < MaxOps /\ writes[p] = <<>>
  /\ ops' = ops + 1 /\ writes' = [writes EXCEPT ![p] = steps]
  /\ UNCHANGED <<records, archive, index, signed, deaths>>

(* knowledge_propose, by a turn or by Dream.                               *)
Propose(p) ==
  \E n \in Names, b \in Bodies : Start(p, Upsert(n, b)) /\ UNCHANGED approved

(* /knowledge approve                                                      *)
Approve(p) ==
  \E f \in RecordFiles :
    /\ MayApprove(f) /\ Start(p, Approval(f))
    /\ approved' = [approved EXCEPT ![f[1]] = @ \cup {records[f].body}]

(* /knowledge reject                                                       *)
Reject(p) ==
  \E f \in RecordFiles :
    /\ records[f] # Missing /\ Start(p, Rejection(f))
    /\ UNCHANGED approved

Doing(p, what) == writes[p] # <<>> /\ Head(writes[p]).do = what
Done(p) == writes' = [writes EXCEPT ![p] = Tail(@)]

(* _write_record: one file is replaced, atomically.                        *)
WriteRecord(p) ==
  /\ Doing(p, "write") /\ Done(p)
  /\ records' = [records EXCEPT ![Head(writes[p]).file] = Head(writes[p]).record]
  /\ UNCHANGED <<archive, index, signed, approved, ops, deaths>>

(* _archive_record copies the file as it is now.                           *)
ArchiveRecord(p) ==
  /\ Doing(p, "archive") /\ Done(p)
  /\ LET n == Head(writes[p]).file[1]
         r == records[Main(n)]
     IN  archive' = archive \cup
           (IF r = Missing THEN {} ELSE {<<n, Head(writes[p]).record.version, r.body>>})
  /\ UNCHANGED <<records, index, signed, approved, ops, deaths>>

(* sync_index: the signature covers texts and statuses, not versions.      *)
TextsOnly == [f \in RecordFiles |-> records[f].body]                      \* faulty
Signature == [f \in RecordFiles |-> <<records[f].body, records[f].status>>]

SyncIndex(p) ==
  /\ Doing(p, "sync") /\ Done(p)
  /\ index' = records /\ signed' = [signed EXCEPT ![p] = Signature]
  /\ UNCHANGED <<records, archive, approved, ops, deaths>>

(* search_wiki and every other reader of the index bring it up to date,    *)
(* when the signature says so.                                             *)
Search(p) ==
  /\ writes[p] = <<>> /\ signed[p] # Signature
  /\ index' = records /\ signed' = [signed EXCEPT ![p] = Signature]
  /\ UNCHANGED <<records, archive, writes, approved, ops, deaths>>

(* A person removes a file, or retires what it holds: the files are the    *)
(* source of truth, and nobody tells the index.                            *)
EditByHand ==
  /\ ops < MaxOps /\ ops' = ops + 1
  /\ \E f \in RecordFiles :
       /\ records[f] # Missing
       /\ \E r \in {Missing, [records[f] EXCEPT !.status = "rejected"]} :
            records' = [records EXCEPT ![f] = r]
  /\ UNCHANGED <<archive, index, signed, writes, approved, deaths>>

(* The process dies with its operation unfinished; a new one knows nothing *)
(* of the index.                                                           *)
Die(p) ==
  /\ deaths < MaxCrashes /\ deaths' = deaths + 1
  /\ writes' = [writes EXCEPT ![p] = <<>>] /\ signed' = [signed EXCEPT ![p] = <<>>]
  /\ UNCHANGED <<records, archive, index, approved, ops>>

KnowledgeNext ==
  \/ EditByHand
  \/ \E p \in Stores :
       \/ Propose(p) \/ Approve(p) \/ Reject(p) \/ Search(p) \/ Die(p)
       \/ WriteRecord(p) \/ ArchiveRecord(p) \/ SyncIndex(p)

KnowledgeSpec == KnowledgeInit /\ [][KnowledgeNext]_knowledgeVars

-----------------------------------------------------------------------------
(* Every variable has its type.                                            *)
KnowledgeTypeOK ==
  LET Status == {"missing", "candidate", "active", "quarantined", "rejected", "superseded"}
      Records == [status : Status, body : Bodies \cup {"own"}, version : 0..(2 * MaxOps)]
  IN  /\ records \in [RecordFiles -> Records] /\ index \in [RecordFiles -> Records]
      /\ archive \subseteq Names \X (0..(2 * MaxOps)) \X Bodies
      /\ \A p \in Stores : \A i \in DOMAIN writes[p] :
           writes[p][i].do \in {"write", "archive", "sync"}
      /\ approved \in [Names -> SUBSET Bodies]
      /\ ops \in 0..MaxOps /\ deaths \in 0..MaxCrashes

(* What is active has the name it was approved for, a person approved that *)
(* very text, and the gate finds no fault with it: whatever is proposed,   *)
(* in whatever order proposals are approved, whenever a process dies.      *)
ActiveIsApproved ==
  \A f \in RecordFiles : Active(records[f]) =>
    f = Main(f[1]) /\ records[f].body \in approved[f[1]] /\ ~Violates(records[f])

(* An active text that another takes the place of is in the history, with  *)
(* its version; the version of what is active only grows.                  *)
ReplacedIsKept ==
  [][\A n \in Names :
       LET old == records[Main(n)]
           new == records'[Main(n)]
       IN  Active(old) /\ new.body # old.body /\ new # Missing =>
             <<n, old.version, old.body>> \in archive /\ new.version > old.version]_knowledgeVars

(* A search never answers with a text that is not active any more, nor     *)
(* misses one that is: a store whose signature is that of the files has    *)
(* them in the index.                                                      *)
ServedIsFiled ==
  \A p \in Stores : writes[p] = <<>> /\ signed[p] = Signature =>
    \A f \in RecordFiles : Active(index[f]) <=> Active(records[f])

(* An untrusted proposal takes no active record's place (test_knowledge.py, *)
(* line 116).                                                              *)
UntrustedKeepsActive ==
  [][\A f \in RecordFiles : Active(records[f]) => records'[f].status # "candidate"]_knowledgeVars

(* What is active was approved, and what is found is active.               *)
KnowledgeIsSound == ActiveIsApproved /\ ServedIsFiled

(* What was active is not lost.                                            *)
RecordsAreKept == ReplacedIsKept /\ UntrustedKeepsActive
=============================================================================
