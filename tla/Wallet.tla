------------------------------- MODULE Wallet -------------------------------
(***************************************************************************)
(* The wallet core for a client of one chain, Bitcoin or Solana.  Its calls*)
(* keep nothing and share nothing, so a client of both sees no more than   *)
(* what each of the two sees.                                              *)
(***************************************************************************)
EXTENDS Signing, SolanaEditing

WalletInit == SigningInit /\ SolanaInit

WalletNext ==
    \/ SolanaInit /\ SigningNext /\ UNCHANGED solanaVars
    \/ SigningInit /\ SolanaNext /\ UNCHANGED vars

WalletSpec == WalletInit /\ [][WalletNext]_<<vars, solanaVars>>

\* Each of the two keeps its invariant: what is planned and signed are sequences of
\* one length, a Solana message's header describes its keys, and no index points
\* outside them (compiler.rs:109, insert_instruction.rs:40).
WalletInv == SigningInv /\ SigningTypeOK /\ SolanaInv
=============================================================================
