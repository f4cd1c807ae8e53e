--------------------------------- MODULE Audit ---------------------------------
(* The audit log (audit.rs): entries in the object store that name their      *)
(* predecessor, and a ref to the newest.  An entry is its content, so that a  *)
(* link is the entry itself.  The log has no lock of its own.                 *)
EXTENDS Integers, FiniteSets, Sequences

CONSTANTS Writers, MaxEntries

ASSUME AuditAssumption == MaxEntries \in Nat

VARIABLES
  auditHead,   \* refs/audit/HEAD
  writer,      \* appends under way
  made,        \* how many entries were begun
  alone        \* entries of appends that no other append overlapped

auditVars == <<auditHead, writer, made, alone>>
Resting == [pc |-> "idle"]
NoEntry == [n |-> 0]   \* None: no head yet, no parent

AuditInit ==
  /\ auditHead = NoEntry
  /\ writer = [w \in Writers |-> Resting]
  /\ made = 0 /\ alone = {}

(* append, 1: the head is read and becomes the parent                         *)
AppendRead(w) ==
  /\ writer[w].pc = "idle" /\ made < MaxEntries
  /\ made' = made + 1
  /\ LET others == {v \in Writers : writer[v].pc # "idle"} IN
     writer' = [v \in Writers |->
       IF v = w THEN [pc |-> "read", entry |-> [n |-> made + 1, parent |-> auditHead],
                      alone |-> others = {}]
       ELSE IF v \in others THEN [writer[v] EXCEPT !.alone = FALSE] ELSE writer[v]]
  /\ UNCHANGED <<auditHead, alone>>

(* Faulty: the new entry is the head but names no parent.                     *)
AppendWriteUnlinked(w) ==
  /\ writer[w].pc = "read"
  /\ auditHead' = [writer[w].entry EXCEPT !.parent = NoEntry]
  /\ alone' = IF writer[w].alone THEN alone \cup {writer[w].entry} ELSE alone
  /\ writer' = [writer EXCEPT ![w] = Resting]
  /\ UNCHANGED made

(* append, 2: the entry is put, and the head is moved to it                   *)
AppendWrite(w) ==
  /\ writer[w].pc = "read"
  /\ auditHead' = writer[w].entry
  /\ alone' = IF writer[w].alone THEN alone \cup {writer[w].entry} ELSE alone
  /\ writer' = [writer EXCEPT ![w] = Resting]
  /\ UNCHANGED made

(* The process ends between the two: the entry is an object no one names.     *)
AppendCrash(w) ==
  /\ writer[w].pc = "read"
  /\ writer' = [writer EXCEPT ![w] = Resting]
  /\ UNCHANGED <<auditHead, made, alone>>

AuditNext == \E w \in Writers : AppendRead(w) \/ AppendWrite(w) \/ AppendCrash(w)

AuditSpec == AuditInit /\ [][AuditNext]_auditVars

--------------------------------------------------------------------------------
(* The i-th entry from the head, or NoEntry past the first                    *)
Link(h) ==
  LET link[i \in 1 .. MaxEntries + 1] ==
        IF i = 1 THEN h
        ELSE IF link[i - 1] = NoEntry THEN NoEntry ELSE link[i - 1].parent
  IN link

(* read_chain: newest first, at most limit entries                            *)
ReadChain(limit) ==
  LET link == Link(auditHead)
      n == Cardinality({i \in 1 .. MaxEntries : link[i] # NoEntry})
  IN [i \in 1 .. IF n < limit THEN n ELSE limit |-> link[i]]

(* An append that no other append overlaps is in the chain for good, whatever *)
(* appends race or crash later; racing ones can drop each other's entries     *)
(* (append reads the head and writes it without a lock) but no older ones.    *)
(* A listing with a limit is the newest part of the chain.                    *)
AuditKept ==
  LET chain == ReadChain(MaxEntries) IN
  /\ \A e \in alone : \E i \in DOMAIN chain : chain[i] = e
  /\ \A l \in 1 .. MaxEntries : ReadChain(l) = SubSeq(chain, 1, Len(ReadChain(l)))
  /\ \A i \in 1 .. Len(chain) - 1 : chain[i].n > chain[i + 1].n
================================================================================
