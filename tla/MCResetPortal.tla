---------------------------- MODULE MCResetPortal ----------------------------
(***************************************************************************)
(* Two workers; a domain whose portal may be renamed and one with a        *)
(* catch-all.  Traefik does to its entries what Nginx Proxy Manager does.  *)
(***************************************************************************)
EXTENDS ResetPortal, TLC

CONSTANTS w1, w2, d1, d2, h1, h2, h3

HostsDomains == (h1 :> d1) @@ (h2 :> d1) @@ (h3 :> d2)
EveryBackend == {"npm", "caddy", "cloudflare_tunnel", "manual"}
Symmetry == Permutations({w1, w2}) \cup Permutations({h1, h2})

==============================================================================
