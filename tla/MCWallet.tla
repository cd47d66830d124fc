------------------------------ MODULE MCWallet ------------------------------
EXTENDS Wallet, MCSigning, MCSolana
=============================================================================
