------------------------------ MODULE RulePatch -----------------------------
(***************************************************************************)
(* A runtime-updatable rule: PatchBanks (gateway_core.h), RulePatch and    *)
(* the set_patch / set_signal automation actions (can_gateway.h) against   *)
(* the receive interrupt that applies the patch.                           *)
(*                                                                         *)
(* A byte is the set of its bits that are one.  The loop writes one byte   *)
(* of a bank at a time and the interrupt can fall between any two writes;  *)
(* an interrupt reads the active index once and runs to completion.        *)
(*                                                                         *)
(* The CAN ID is one more cell of the patch: in a rule that replaces the   *)
(* ID its mask lets no received bit through, its bits are those of the     *)
(* rule's frame type, and set_can_id is a set_byte on it.                  *)
(***************************************************************************)
EXTENDS Naturals

CONSTANTS
  Bytes,      \* the cells of a patch: the payload bytes and the CAN ID
  Payload,    \* those that are payload bytes
  Bits,       \* the bits of a byte
  Declared,   \* declared_: the bits of each byte the rule may ever touch
  StartPatch  \* the patch codegen emits for the rule

Byte == SUBSET Bits
PatchByte == [and : Byte, or : Byte]

(* Codegen emits a patch that touches declared bits only and sets none of  *)
(* the bits it lets through.                                               *)
WithinDeclared(patch) ==
  \A i \in Bytes : Bits \ patch[i].and \subseteq Declared[i] /\ patch[i].or \cap patch[i].and = {}

ASSUME PatchAssumption ==
  /\ Payload \subseteq Bytes
  /\ Declared \in [Bytes -> Byte]
  /\ StartPatch \in [Bytes -> PatchByte]
  /\ WithinDeclared(StartPatch)

VARIABLES
  banks,     \* banks_
  active,    \* active_
  staging,   \* staging_
  patchPc,   \* the loop's next step
  todo,      \* bytes the running step has still to write
  patchJob,  \* the action being played
  committed  \* (history) the patch as of the last commit

patchVars == <<banks, active, staging, patchPc, todo, patchJob, committed>>

(* What an automation asks for: set_can_id and set_byte on some cells      *)
(* (their field is all bits, the others' none), or a signal field of the   *)
(* payload to stamp (on) or to hand back to the original bits (off).       *)
PatchJobs ==
  [kind : {"bytes"}, value : [Bytes -> Byte], field : [Bytes -> {{}, Bits}]]
    \cup [kind : {"on", "off"}, value : [Bytes -> Byte],
             field : {f \in [Bytes -> Byte] : \A i \in Bytes \ Payload : f[i] = {}}]

PatchTypeOK ==
  /\ banks \in [{0, 1} -> [Bytes -> PatchByte]]
  /\ active \in {0, 1}
  /\ staging \in BOOLEAN
  /\ patchPc \in {"idle", "seed", "write", "commit"}
  /\ todo \in SUBSET Bytes
  /\ patchJob \in PatchJobs
  /\ committed \in [Bytes -> PatchByte]

NoPatchJob == [kind |-> "bytes", value |-> [i \in Bytes |-> {}], field |-> [i \in Bytes |-> {}]]

PatchInit ==
  /\ banks = [b \in {0, 1} |-> StartPatch]
  /\ active = 0
  /\ staging = FALSE
  /\ patchPc = "idle"
  /\ todo = {}
  /\ patchJob = NoPatchJob
  /\ committed = StartPatch

-----------------------------------------------------------------------------
(* Mutant: the stage goes to the bank the interrupt reads.                 *)
InactiveIsActive == active

Inactive == 1 - active

(* Mutant: the inactive bank is not seeded from the active one.            *)
PlayUnseeded(j) ==
  /\ patchPc = "idle"
  /\ patchJob' = j
  /\ todo' = Bytes
  /\ patchPc' = "write"
  /\ staging' = TRUE
  /\ UNCHANGED <<banks, active, committed>>

(* play(): the first stage() of a cycle seeds the inactive bank.           *)
Play(j) ==
  /\ patchPc = "idle"
  /\ patchJob' = j
  /\ todo' = Bytes
  /\ patchPc' = IF staging THEN "write" ELSE "seed"
  /\ staging' = TRUE
  /\ UNCHANGED <<banks, active, committed>>

(* stage(): banks_[1 - active] = banks_[active], one byte of the copy.     *)
Seed(i) ==
  /\ patchPc = "seed" /\ i \in todo
  /\ banks' = [banks EXCEPT ![Inactive][i] = banks[active][i]]
  /\ todo' = IF todo = {i} THEN Bytes ELSE todo \ {i}
  /\ patchPc' = IF todo = {i} THEN "write" ELSE "seed"
  /\ UNCHANGED <<active, staging, patchJob, committed>>

(* set_byte stores the masked value; set_signal changes mask and value of  *)
(* the declared part of its field.                                         *)
Staged(i, p) ==
  LET m == patchJob.field[i] \cap Declared[i]
  IN  CASE patchJob.kind = "bytes" /\ patchJob.field[i] = {} -> p
        [] patchJob.kind = "bytes" /\ patchJob.field[i] # {} ->
             [and |-> p.and, or |-> patchJob.value[i] \cap (Bits \ p.and)]
        [] patchJob.kind = "on" ->
             [and |-> p.and \ m, or |-> (p.or \ m) \cup (patchJob.value[i] \cap m)]
        [] patchJob.kind = "off" -> [and |-> p.and \cup m, or |-> p.or \ m]

Write(i) ==
  /\ patchPc = "write" /\ i \in todo
  /\ banks' = [banks EXCEPT ![Inactive][i] = Staged(i, @)]
  /\ todo' = todo \ {i}
  /\ patchPc' = IF todo = {i} THEN "commit" ELSE "write"
  /\ UNCHANGED <<active, staging, patchJob, committed>>

(* commit(): one store of the active index publishes the bank.             *)
Commit ==
  /\ patchPc = "commit"
  /\ active' = Inactive
  /\ staging' = FALSE
  /\ committed' = banks[Inactive]
  /\ patchPc' = "idle"
  /\ UNCHANGED <<banks, todo, patchJob>>

PatchNext ==
  \/ \E j \in PatchJobs : Play(j)
  \/ \E i \in Bytes : Seed(i) \/ Write(i)
  \/ Commit

PatchSpec == PatchInit /\ [][PatchNext]_patchVars

-----------------------------------------------------------------------------
(* apply_patch on byte i of a frame received now.                          *)
Apply(i, data) == (data \cap banks[active][i].and) \cup banks[active][i].or

(* An interrupt at any moment applies the patch of the last commit, whole: *)
(* "never a torn mix" (gateway_core.h, PatchBanks).                        *)
FrameSeesOneCommit == banks[active] = committed

(* No automation can make the rule touch a bit that codegen did not        *)
(* declare: a received bit outside Declared crosses unchanged.             *)
UndeclaredBitsCross ==
  \A i \in Bytes, data \in Byte : \A b \in Bits \ Declared[i] :
    b \in Apply(i, data) <=> b \in data

(* A commit changes the bits of the running job and no others: set_signal  *)
(* keeps what earlier set_patch and set_signal calls staged elsewhere.     *)
CommitChangesItsJob ==
  [][patchPc = "commit" =>
       \A i \in Bytes, data \in Byte : \A b \in Bits \ patchJob.field[i] :
         b \in Apply(i, data) <=>
         b \in (data \cap banks'[active'][i].and) \cup banks'[active'][i].or]_patchVars

=============================================================================
