--------------------------- MODULE MCCaInjection ---------------------------
(***************************************************************************)
(* Small file systems for CaInjection.  Each is a set of files, where they *)
(* stand, and the base images a build may start from.                      *)
(***************************************************************************)
EXTENDS CaInjection

CONSTANTS
  bundle,    \* /etc/ssl/certs/ca-certificates.crt
  jks,       \* a JVM's cacerts
  anchor,    \* buildcage.crt in the anchor directory
  txt,       \* ~/.pki/nssdb/pkcs11.txt
  db,        \* cert9.db beside it
  strayTxt,  \* a pkcs11.txt in a copy of the home
  stray,     \* a file in no directory of interest
  acl,       \* an ACL in the certificate directory
  certs,     \* /etc/ssl/certs
  jvm,       \* a JVM's lib/security
  nss,       \* ~/.pki/nssdb
  anchors,   \* /usr/local/share/ca-certificates
  owner,     \* /usr/share/ca-certificates
  base, new, \* bodies
  nobody, nowhere, own

MCBody == {base, new}

-----------------------------------------------------------------------------
(* A Debian image with a JDK: its cacerts stands in the store's directory,  *)
(* and the store's bind covers it.                                          *)
StorePath == {bundle, jks, anchor, stray}
StoreDir == {certs, anchors, owner}
StoreDirOf ==
  [p \in StorePath |-> CASE p \in {bundle, jks} -> certs
                         [] p = anchor -> anchors
                         [] OTHER -> nowhere]
StoreBaseFiles == {{bundle, jks}, {bundle, jks, stray}}
StoreBaseDirs == {{certs}, {certs, anchors, owner}, {certs, owner}}

(* An image with a JVM in a directory of its own and a Chromium user.       *)
HomePath == {jks, txt, db, strayTxt}
HomeDir == {jvm, nss}
HomeDirOf ==
  [p \in HomePath |-> CASE p = jks -> jvm [] p \in {txt, db} -> nss [] OTHER -> nowhere]
HomeBaseFiles == {{jks}, {jks, txt, db}}
HomeBaseDirs == {{jvm}, {jvm, nss}}

(* A store, a JVM keystore beside the bundle and a copied pkcs11.txt, over   *)
(* a build of several steps.                                                 *)
ChainPath == {bundle, jks, txt, strayTxt}
ChainDir == {certs, nss}
ChainDirOf ==
  [p \in ChainPath |-> CASE p \in {bundle, jks} -> certs
                         [] p = txt -> nss
                         [] OTHER -> nowhere]
ChainBaseFiles == {{bundle, jks}}
ChainBaseDirs == {{certs}}

(* A certificate directory, with an ACL on it.                               *)
AclPath == {bundle, acl}
AclDir == {certs}
AclDirOf == [p \in AclPath |-> certs]
AclBaseFiles == {{bundle}}
AclBaseDirs == {{certs}}

NoAnchorFile == [d \in {} |-> d]
OneAnchorFile == [d \in {anchors} |-> anchor]
OneOwner == [d \in {anchors} |-> owner]
=============================================================================
