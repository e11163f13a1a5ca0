------------------------ MODULE ServerContractProofs ------------------------
(* What follows from the server's contract, for whoever keeps it. *)
EXTENDS ServerContract, TLAPS

LEMMA ContractNext == Contract /\ [Next]_vars => Contract'
  <1> SUFFICES ASSUME Contract, [Next]_vars PROVE Contract'
    OBVIOUS
  <1> USE DEF Contract, TypeOK, Silent, StreamsServed, free
  <1>1. CASE Play
    BY <1>1, Zenon DEF Play
  <1>2. CASE EndStream
    BY <1>2, Zenon DEF EndStream
  <1>3. CASE Start
    BY <1>3, Zenon DEF Start
  <1>4. CASE Stop
    BY <1>4, Zenon DEF Stop
  <1>5. CASE Trip
    BY <1>5, Zenon DEF Trip
  <1>6. CASE Save
    BY <1>6, Zenon DEF Save
  <1>7. CASE Silence
    BY <1>7, Zenon DEF Silence
  <1>8. CASE Clear
    BY <1>8, Zenon DEF Clear
  <1>9. CASE Wipe
    BY <1>9, Zenon DEF Wipe
  <1>10. CASE Reset
    BY <1>10, Zenon DEF Reset
  <1>11. CASE UNCHANGED vars
    BY <1>11 DEF vars
  <1> QED
    BY <1>1, <1>2, <1>3, <1>4, <1>5, <1>6, <1>7, <1>8, <1>9, <1>10, <1>11 DEF Next

(* No sequence of trips, acknowledgements, saves and resets lets a server   *)
(* that keeps the contract be reached while a completed trip is in force,   *)
(* or lose that trip at a reset.                                            *)
THEOREM ContractSilences == Spec => []Contract
  <1>1. ASSUME Init PROVE Contract
    <2>1. TypeOK
      BY <1>1, Zenon DEF Init, TypeOK
    <2> QED BY <1>1, <2>1 DEF Init, Contract, Silent, StreamsServed
  <1> QED BY <1>1, ContractNext, PTL DEF Spec
=============================================================================
