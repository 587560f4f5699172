------------------------- MODULE MCOpenstackWorker -------------------------
(* A small instance of OpenstackWorker. *)
EXTENDS OpenstackWorker

CONSTANTS a, b, c, cpu, rx, odd

MCParams ==
  a :> <<[metric |-> cpu, iface |-> NoIface], [metric |-> rx, iface |-> NoIface]>>
  @@ b :> <<[metric |-> cpu, iface |-> NoIface]>>
  @@ c :> <<[metric |-> odd, iface |-> NoIface]>>

MCLayouts == {<<a>>, <<a, b>>, <<b, a>>, <<c, b>>}
=============================================================================
