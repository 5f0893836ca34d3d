--------------------------- MODULE StartupProofs ----------------------------
(***************************************************************************)
(* What is true of the configuration and the head once requests are        *)
(* served, for any networks, files, environments and command lines.        *)
(***************************************************************************)
EXTENDS Startup, TLAPS

\* Each statement of main keeps what was found before it, and a statement that
\* relies on a check comes after it.
LEMMA StartInductive == IInv /\ [Next]_vars => IInv'
<1> SUFFICES ASSUME IInv, [Next]_vars PROVE IInv'
  OBVIOUS
<1> USE DEF IInv, given
<1>0. ASSUME config' = config PROVE Valid(config)' <=> Valid(config)
  BY <1>0 DEF Valid
<1>1. CASE ReadConfig
  BY <1>1 DEF ReadConfig
<1>2. CASE ReadFails
  BY <1>2 DEF ReadFails, Fail
<1>3. CASE Validate
  BY <1>0, <1>3 DEF Validate, Fail
<1>4. CASE CheckDataDir
  BY <1>0, <1>4 DEF CheckDataDir, Fail
<1>5. CASE SpecVersion
  BY <1>0, <1>5 DEF SpecVersion, Reachable
<1>6. CASE SpecVersionFails
  BY <1>6 DEF SpecVersionFails, Fail
<1>7. CASE ChainId
  BY <1>0, <1>7 DEF ChainId, GatewayOf
<1>8. CASE ChainIdFails
  BY <1>8 DEF ChainIdFails, Fail
<1>9. CASE GatewayClientNew
  <2>1. CASE url # "slash"
    <3>1. UNCHANGED <<config, version, chain, url, head>> /\ pc = "client" /\ pc' = "head"
      BY <1>9, <2>1 DEF GatewayClientNew
    <3> QED
      BY <1>0, <3>1
  <2>2. CASE url = "slash"
    BY <1>9, <2>2 DEF GatewayClientNew, Fail
  <2> QED
    BY <2>1, <2>2
<1>10. CASE GetState
  BY <1>0, <1>10 DEF GetState, Reachable
<1>11. CASE GetStateFails
  BY <1>11 DEF GetStateFails, Fail
<1>12. CASE Spawn
  BY <1>0, <1>12 DEF Spawn
<1>13. CASE PollerStarts
  BY <1>0, <1>13 DEF PollerStarts
<1>14. CASE Serve
  BY <1>0, <1>14 DEF Serve
<1>15. CASE BindFails
  BY <1>15 DEF BindFails, Fail
<1>16. CASE UNCHANGED vars
  BY <1>0, <1>16 DEF vars
<1> QED
  BY <1>1, <1>2, <1>3, <1>4, <1>5, <1>6, <1>7, <1>8, <1>9, <1>10, <1>11, <1>12,
     <1>13, <1>14, <1>15, <1>16 DEF Next

\* The inductive invariant: which checks the program has behind it at each
\* statement of main.
THEOREM StartInvariance == Spec => []IInv
<1>1. Init => IInv
  BY DEF Init, IInv
<1> QED
  BY <1>1, StartInductive, PTL DEF Spec

\* Nothing is served before every check has passed that a later statement
\* relies on, whatever validate overlooks.
THEOREM OnlyCheckedServes == Spec => []ServesOnlyChecked
<1>1. ASSUME IInv, pc = "serving" PROVE ServesOnlyChecked
  <2>1. Valid(config) /\ config.dir = "there"
    BY <1>1 DEF IInv
  <2>2. config.poll \in 1..3600
    BY <2>1 DEF Valid
  <2>3. config.rpc \in Networks /\ version /\ head \in Networks /\ head = url
    BY <1>1 DEF IInv
  <2>4. url = IF config.gateway = Absent THEN chain ELSE config.gateway
    BY <1>1 DEF IInv
  <2>5. config.gateway = Absent => chain \in Known
    BY <1>1 DEF IInv
  <2> QED
    BY <2>1, <2>2, <2>3, <2>4, <2>5 DEF ServesOnlyChecked
<1>2. IInv => ServesOnlyChecked
  BY <1>1, Zenon DEF ServesOnlyChecked
<1> QED
  BY <1>2, StartInvariance, PTL
=============================================================================
