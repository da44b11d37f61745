------------------------ MODULE MCConfigPropagation ------------------------
(* Two VMs; app A spread over both, app B on V2 only.  The configs are   *)
(* the spec 8 splitter scenarios, one with a remainder on both axes.     *)
EXTENDS PropagationSums, TLC

CONSTANTS A, B, V1, V2, V3

MCPlacement == (A :> <<V1, V2>>) @@ (B :> <<V2>>)

(* For the run where V3 has no vm_ip_map entry: B is spread over V2, V3. *)
MCPanicPlacement == (A :> <<V1, V2>>) @@ (B :> <<V2, V3>>)

MCConfigs ==
  { A :> <<900, 300>>,
    A :> <<901, 301>>,
    (A :> <<600, 200>>) @@ (B :> <<500, 100>>) }
=============================================================================
