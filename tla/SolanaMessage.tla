--------------------------- MODULE SolanaMessage ---------------------------
(***************************************************************************)
(* A Solana message (chains/tw_solana: transaction/{mod,v0}.rs) and the    *)
(* changes that keep its parts consistent (modules/insert_instruction.rs). *)
(*                                                                         *)
(* A compiled instruction names its program and accounts by their index in *)
(* the list of keys, followed by the accounts that lookup tables load.  The*)
(* list has four groups, whose sizes the header gives:                     *)
(*   writable signers, read-only signers, writable others, read-only others*)
(* so that adding one key moves the indices of the keys behind it.         *)
(*                                                                         *)
(* An index is one more than the code's.  The code's index is one byte: a  *)
(* message is assumed to have room for it (fewer than 256 accounts).       *)
(***************************************************************************)
EXTENDS SequencesExt, Listing

CONSTANTS Addresses,   \* public keys
          Data         \* what an instruction passes to its program

System == "system"     \* SYSTEM_PROGRAM_ID_ADDRESS
Budget == "budget"     \* COMPUTE_BUDGET_ADDRESS
Advance == <<"advance", 0>>   \* SystemInstruction::AdvanceNonceAccount

\* What an instruction asks of an account, and an instruction that asks it.
AccountMeta == [key : Addresses, signer : BOOLEAN, writable : BOOLEAN]
Instruction == [program : Addresses, accounts : Seq(AccountMeta), data : Data]

CompiledInstruction == [program : Nat, accounts : Seq(Nat), data : Data]
Message ==
    [keys : Seq(Addresses), loaded : Seq(Addresses), hash : Nat,
     signers : Nat, roSigners : Nat, roOthers : Nat,
     ixs : Seq(CompiledInstruction)]

NoMessage ==
    [keys |-> <<>>, loaded |-> <<>>, hash |-> 0,
     signers |-> 0, roSigners |-> 0, roOthers |-> 0, ixs |-> <<>>]

AddressAt(m, i) ==
    IF i <= Len(m.keys) THEN m.keys[i] ELSE m.loaded[i - Len(m.keys)]

\* The instruction that a compiled one stands for, without privileges.
Meaning(m, ix) ==
    [program |-> AddressAt(m, ix.program),
     accounts |-> [j \in DOMAIN ix.accounts |-> AddressAt(m, ix.accounts[j])],
     data |-> ix.data]

IsSigner(m, i) == i <= m.signers
IsWritable(m, i) ==
    IF IsSigner(m, i) THEN i <= m.signers - m.roSigners
                      ELSE i <= Len(m.keys) - m.roOthers

Position(keys, k) == CHOOSE i \in DOMAIN keys : keys[i] = k
Known(m, k) == \E i \in DOMAIN m.keys : m.keys[i] = k
-----------------------------------------------------------------------------
\* An index after a key was inserted at p, and an instruction's indices.
Moved(i, p) == IF i >= p THEN i + 1 ELSE i
\* The program's index stays.
ShiftedBug(ix, p) ==
    [ix EXCEPT !.accounts = [j \in DOMAIN @ |-> Moved(@[j], p)]]
Shifted(ix, p) ==
    [program |-> Moved(ix.program, p),
     accounts |-> [j \in DOMAIN ix.accounts |-> Moved(ix.accounts[j], p)],
     data |-> ix.data]
AllShifted(m, p) == [i \in DOMAIN m.ixs |-> Shifted(m.ixs[i], p)]

\* push_account: where a new account goes, at the end of its group.
Place(m, a) ==
    CASE a.signer /\ a.writable -> m.signers - m.roSigners + 1
      [] a.signer /\ ~a.writable -> m.signers + 1
      [] ~a.signer /\ a.writable -> Len(m.keys) - m.roOthers + 1
      [] OTHER -> Len(m.keys) + 1

\* The header counts a read-only signer among the signers only.
WithAccountBug(m, a) ==
    [m EXCEPT !.keys = InsertAt(@, Place(m, a), a.key),
              !.signers = @ + (IF a.signer THEN 1 ELSE 0),
              !.roOthers = @ + (IF ~a.signer /\ ~a.writable THEN 1 ELSE 0),
              !.ixs = AllShifted(m, Place(m, a))]
WithAccount(m, a) ==
    [m EXCEPT !.keys = InsertAt(@, Place(m, a), a.key),
              !.signers = @ + (IF a.signer THEN 1 ELSE 0),
              !.roSigners = @ + (IF a.signer /\ ~a.writable THEN 1 ELSE 0),
              !.roOthers = @ + (IF ~a.signer /\ ~a.writable THEN 1 ELSE 0),
              !.ixs = AllShifted(m, Place(m, a))]

RefusedBug(m, a) == FALSE
\* push_account refuses an account that is there with weaker privileges.
Refused(m, a) ==
    \E i \in DOMAIN m.keys :
        /\ m.keys[i] = a.key
        /\ \/ a.signer /\ ~IsSigner(m, i)
           \/ a.writable /\ ~IsWritable(m, i)

\* Whether the program is there is not looked up.
WithProgramBug(m, k) ==
    [m EXCEPT !.keys = Append(@, k),
              !.roOthers = @ + 1,
              !.ixs = AllShifted(m, Len(m.keys) + 1)]
\* push_readonly_unsigned_account, for a program that is not there yet.  Only
\* indices into the lookup tables are behind it.
WithProgram(m, k) ==
    IF Known(m, k) THEN m
    ELSE [m EXCEPT !.keys = Append(@, k),
                   !.roOthers = @ + 1,
                   !.ixs = IF m.loaded = <<>> THEN @
                           ELSE AllShifted(m, Len(m.keys) + 1)]

\* set_fee_payer.
WithPayer(m, k) ==
    [m EXCEPT !.keys = InsertAt(@, 1, k),
              !.signers = @ + 1,
              !.ixs = AllShifted(m, 1)]

\* The last step of insert_instruction: the program, then the instruction.
WithInstruction(m, at, program, accounts, data) ==
    LET w == WithProgram(m, program)
    IN  [w EXCEPT !.ixs =
            InsertAt(@, at, [program |-> Position(w.keys, program),
                             accounts |-> accounts, data |-> data])]
=============================================================================
