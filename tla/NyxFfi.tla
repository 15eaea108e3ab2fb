-------------------------------- MODULE NyxFfi --------------------------------
(***************************************************************************)
(* The life of a config object behind the pointers of the C interface      *)
(* (libnyx/src/ffi.rs).  A program uses that interface or the Rust one;    *)
(* the C functions add checks of their own and turn an Err into a null     *)
(* pointer, which the program may well pass on.  It does not use a pointer *)
(* after it has given the object back.                                     *)
(***************************************************************************)
EXTENDS NyxConfig

VARIABLES
  interface,    \* "Rust" or "C"
  handle,       \* the config pointer: "none", "null", "valid", "freed"
  process       \* what the last nyx_new() returned: "none", "null", "valid"

ffi  == <<interface, handle, process>>
cvars == <<vars, ffi>>

FfiTypeOK ==
  /\ TypeOK
  /\ interface \in {"Rust", "C"}
  /\ handle \in {"none", "null", "valid", "freed"}
  /\ process \in {"none", "null", "valid"}
  /\ handle = "valid" => pc # "unloaded"

FfiInit == Init /\ interface \in {"Rust", "C"} /\ handle = "none" /\ process = "none"

InC(pointer) == interface = "C" /\ pc # "panicked" /\ handle = pointer

-----------------------------------------------------------------------------
(* nyx_config_load() *)
ConfigLoad ==
  /\ InC("none")
  /\ \/ LoadFails /\ handle' = "null"
     \/ Loading /\ handle' = IF pc' = "loaded" THEN "valid" ELSE "none"
  /\ UNCHANGED <<interface, process>>

(* A null pointer is asserted away before it is used: a config function, *)
(* nyx_new(), or a function of an instance.                                *)
CheckPtr ==
  /\ \/ InC("null")
     \/ InC("valid") /\ process = "null"
  /\ pc' = "panicked"
  /\ UNCHANGED <<config, params, ffi>>

(* nyx_config_free(): a null pointer is fine here. *)
ConfigFree ==
  /\ InC("null") \/ InC("valid")
  /\ handle' = IF handle = "null" THEN "null" ELSE "freed"
  /\ UNCHANGED <<vars, interface, process>>

(* nyx_config_set_input_buffer_size() asserts that there is a size. *)
ConfigSetInputBufferSize(size) ==
  /\ InC("valid")
  /\ IF size = 0
     THEN pc' = "panicked" /\ UNCHANGED <<config, params>>
     ELSE SetInputBufferSize(size)
  /\ UNCHANGED ffi

(* nyx_config_set_aux_buffer_size() does so, too. *)
ConfigSetAuxBufferSize(size) ==
  /\ InC("valid")
  /\ IF size = 0
     THEN pc' = "panicked" /\ UNCHANGED <<config, params>>
     ELSE SetAuxBufferSize(size)
  /\ UNCHANGED ffi

(* The wrappers that add nothing. *)
ConfigSet ==
  /\ InC("valid")
  /\ \/ \E path \in WorkDir : SetWorkdirPath(path)
     \/ \E role \in Role : SetProcessRole(role)
     \/ SetReuseSnapshotPath
  /\ UNCHANGED ffi

(* nyx_new(): an instance, or null for the Err of a QEMU that does not come  *)
(* up; the config can be used again in both cases.                           *)
NyxNew(w) ==
  /\ InC("valid")
  /\ New(w)
  /\ process' \in IF pc' = "panicked" THEN {process} ELSE {"null", "valid"}
  /\ UNCHANGED <<interface, handle>>

-----------------------------------------------------------------------------
InRust == interface = "Rust" /\ Next /\ UNCHANGED ffi

FfiNext ==
  \/ InRust
  \/ ConfigLoad \/ CheckPtr \/ ConfigFree \/ ConfigSet
  \/ \E size \in SetSize : ConfigSetInputBufferSize(size)
  \/ \E size \in AuxSize : ConfigSetAuxBufferSize(size)
  \/ \E w \in Worker : NyxNew(w)
  \/ pc = "panicked" /\ UNCHANGED cvars
  \/ handle = "freed" /\ UNCHANGED cvars

FfiSpec == FfiInit /\ [][FfiNext]_cvars

=============================================================================
