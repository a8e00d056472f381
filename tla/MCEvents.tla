------------------------------ MODULE MCEvents ------------------------------
(* EventQueue with a host that is connected by TCP and wants to be          *)
(* authenticated, and the local one; the load is asked for twice.           *)
EXTENDS EventQueue

MCPeers        == <<"h1", "h2">>
MCLoadTimeouts == <<1, 1>>
=============================================================================
