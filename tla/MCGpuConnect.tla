----------------------------- MODULE MCGpuConnect -----------------------------
EXTENDS GpuConnect

\* A node that serves peers and is a client of another node.
ServeAndConnect == <<"listen", "accept", "connect", "accept", "connect">>
\* A server with a connection for each of two peers.
ServeTwo == <<"listen", "accept", "accept">>
===============================================================================
