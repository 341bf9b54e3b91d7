--------------------------- MODULE MCProxyServer ---------------------------
(* ProxyServer on one host of every kind the allowlist and the credentials can make. *)
EXTENDS ProxyServer

CONSTANTS plain, wild, path, cred, both, other

MCHosts      == {plain, wild, path, cred, both, other}
MCExactHosts == {plain, cred}
MCWildHosts  == {wild, both}
MCPathHosts  == {path, both}
MCCredHosts  == {cred, both}
=============================================================================
