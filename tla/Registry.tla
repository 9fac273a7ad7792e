------------------------------ MODULE Registry ------------------------------
(***************************************************************************)
(* Which handler serves an import of the title.  Five calls of main hand   *)
(* them to the runtime, one after the other: the generated table, whose    *)
(* handlers take plain arguments, the title's own, which take the guest's  *)
(* context, the runtime's CRT and its file system.  A context handler is   *)
(* looked up before a plain one, and of two for one import the first to    *)
(* be registered is found.                                                 *)
(***************************************************************************)

CONSTANTS
  Import,    \* the imports of the title, by NID
  Table,     \* those the generated table has a plain handler for
  TableCtx,  \* and those it has a context handler for
  Extra,     \* those hle_extra.cpp and vdec_hle.cpp serve
  Probe,     \* file imports they log only if TM_FSPROBE is set
  FsProbe,   \* whether it is
  Crt, Fs    \* those ppu_sysprx_register and ppu_fs_register serve

\* Nobody overrides what the table has a context handler for (cellSaveDataListAutoLoad).
ASSUME RegistryAssumption ==
  /\ Table \cup TableCtx \cup Extra \cup Probe \cup Crt \cup Fs \subseteq Import
  /\ FsProbe \in BOOLEAN
  /\ Extra \cap TableCtx = {} /\ Extra \cap Probe = {}

VARIABLES
  plainOf,  \* who serves an import with a plain handler
  ctxOf     \* who serves it with a context handler

Source == {"none", "table", "extra", "crt", "fs"}

NothingServed ==
  /\ plainOf = [i \in Import |-> "none"]
  /\ ctxOf = [i \in Import |-> "none"]

\* ps3_hle_register_ctx for each import of a set.
Serving(them, by) ==
  [i \in Import |-> IF i \in them /\ ctxOf[i] = "none" THEN by ELSE ctxOf[i]]

\* ppu_hle_init runs the generated ppu_hle_register_all.
RegisterTable ==
  /\ plainOf' = [i \in Import |-> IF i \in Table THEN "table" ELSE plainOf[i]]
  /\ ctxOf' = Serving(TableCtx, "table")

\* tm_vdec_register adds the probes it is asked for.
Extras == IF FsProbe THEN Extra \cup Probe ELSE Extra

\* tm_hle_register_extra, which calls tm_vdec_register first.
RegisterExtra ==
  /\ ctxOf' = Serving(Extras, "extra")
  /\ UNCHANGED plainOf

RegisterCrt == ctxOf' = Serving(Crt, "crt") /\ UNCHANGED plainOf
RegisterFs == ctxOf' = Serving(Fs, "fs") /\ UNCHANGED plainOf

\* The handler the dispatch of an import finds.
Serves(i) == IF ctxOf[i] # "none" THEN ctxOf[i] ELSE plainOf[i]
=============================================================================
