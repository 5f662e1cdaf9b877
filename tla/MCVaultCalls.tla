---------------------------- MODULE MCVaultCalls ----------------------------
\* One unit of USDC refilled to two; an XLM costs half a unit or a whole one.  A
\* transaction lives for one ledger after the one it is built in, and the gap
\* between recalls is longer than that, as 60 ledgers are than 60 seconds.
EXTENDS VaultCalls
=============================================================================
