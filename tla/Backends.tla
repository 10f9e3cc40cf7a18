------------------------------ MODULE Backends ------------------------------
(***************************************************************************)
(* The two back ends built on a library, behind the interface of           *)
(* LSMIOStore.  LSMIOManager::_init makes one of them, as storageType says;*)
(* they share the variables for what the caller and the disk see.  The     *)
(* third one, NativeDB, is module NativeStore.                             *)
(***************************************************************************)
EXTENDS BatchStore

VARIABLES storageType,  \* gConfigLSMIO.storageType
          enableWAL     \* gConfigLSMIO.enableWAL

Rocks == INSTANCE RocksStore

backendVars == <<vars, storageType, enableWAL>>

StorageTypes == {"LevelDB", "RocksDB"}

BackendsInit ==
  /\ storageType \in StorageTypes
  /\ Init
  /\ Rocks!RocksInit

BackendsNext ==
  /\ UNCHANGED storageType
  /\ \/ storageType = "LevelDB" /\ Next /\ UNCHANGED enableWAL
     \/ storageType = "RocksDB" /\ Rocks!RocksNext
        /\ UNCHANGED <<batchVars, freed, counters, local>>

BackendsSpec == BackendsInit /\ [][BackendsNext]_backendVars

Abstract == INSTANCE DurableLog WITH
  Writes <- Keys, log <- log, durable <- Len(db), acked <- acked

\* Each back end keeps what the native store promises: through batches, direct
\* writes, barriers, clean and unclean ends and restarts, the mutations in the
\* database are always a prefix of the ones made, in their order, a returned
\* barrier's mutations are among them, and a crash costs a suffix at most.
ImplementsDurableLog == Abstract!Spec
=============================================================================
