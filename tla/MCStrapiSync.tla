---------------------------- MODULE MCStrapiSync ----------------------------
(* StrapiSync on three builds: old and new differ in the Strapi version and *)
(* in a plugin the newer template dropped; rebuilt is new with other locks. *)
EXTENDS StrapiSync

CONSTANTS old, new, rebuilt, strapi, plugin, sharp

MCVersionOf == [i \in Images |-> IF i = old THEN <<5, 9, 2>> ELSE <<5, 61, 0>>]
MCLockOf == [i \in Images |-> i]
MCTemplateDeps ==
    [i \in Images |-> IF i = old THEN {strapi, plugin} ELSE {strapi}]

\* The Dockerfile removed packages from node_modules after npm wrote the lock.
MCSameLock == [i \in Images |-> IF i = old THEN old ELSE new]
=============================================================================
