--------------------------- MODULE DeviceRegistry ---------------------------
(***************************************************************************)
(* What the two acceptors and the DeviceManager promise together to the    *)
(* rest of the program: at every moment an appliance is known by at most   *)
(* one device object, that object has not emitted 'close', and an          *)
(* appliance leaves the registry only when its own current object closes.  *)
(* The specification says nothing of sockets, provisioning or time-outs:   *)
(* Sessions implements it.                                                 *)
(***************************************************************************)
CONSTANTS
  Ids,      \* the appliances
  Devs,     \* device objects (cloud/thinq1/device.ts, cloud/thinq2/device.ts)
  NoDev,    \* no device object
  NoId      \* no appliance

VARIABLES
  current,  \* the object each appliance is known by
  state,    \* the life of each object: unborn, open, closed
  owner     \* the appliance an object was created for

registryVars == <<current, state, owner>>

RegistryInit ==
  /\ current = [i \in Ids |-> NoDev]
  /\ state = [d \in Devs |-> "unborn"]
  /\ owner = [d \in Devs |-> NoId]

(***************************************************************************)
(* A new object takes over an appliance.  The object it replaces, if there *)
(* is one, closes in the same step (ThinQ2) or stays open for a while and  *)
(* closes later (ThinQ1).                                                  *)
(***************************************************************************)
Announce(i, d) ==
  /\ state[d] = "unborn"
  /\ owner' = [owner EXCEPT ![d] = i]
  /\ current' = [current EXCEPT ![i] = d]
  /\ \/ state' = [state EXCEPT ![d] = "open"]
     \/ /\ current[i] # NoDev
        /\ state' = [state EXCEPT ![d] = "open", ![current[i]] = "closed"]

(***************************************************************************)
(* An object closes; the appliance is forgotten only if it was known by    *)
(* that very object.                                                       *)
(***************************************************************************)
Close(d) ==
  /\ state[d] = "open"
  /\ state' = [state EXCEPT ![d] = "closed"]
  /\ current' = [i \in Ids |-> IF current[i] = d THEN NoDev ELSE current[i]]
  /\ UNCHANGED owner

RegistryNext ==
  \/ \E i \in Ids, d \in Devs : Announce(i, d)
  \/ \E d \in Devs : Close(d)

RegistrySpec == RegistryInit /\ [][RegistryNext]_registryVars
=============================================================================
