-------------------------------- MODULE Updates --------------------------------
(* The update service of a node (auto_update.py): a release page is asked, the *)
(* package it points at is downloaded, verified and installed over the program *)
(* that runs. Page and package are published one after the other; each call of *)
(* the service goes by what the caller kept of an earlier one.                 *)
EXTENDS Integers

CONSTANTS Builds,          \* packages: [release, format, size, members, entries]
          Entries,         \* top-level names under the install root
          MaxPublished     \* bounds what is published

VARIABLES page,            \* version.json, or that it cannot be had
          hosted,          \* the package at the download URL
          public_key,      \* DISTRIBAI_UPDATE_PUBLIC_KEY: "unset", "unreadable" or "set"
          offer, file,     \* what a check and a download returned
          installing,      \* the entries still to merge
          root,            \* entry -> the release it is of
          wheel,           \* the release pip installed last
          backup,          \* a copy of root
          published
updatesVars == <<page, hosted, public_key, offer, file, installing, root, wheel, backup, published>>

None == [release |-> 0]
NoPage == [version |-> 0]
Mixed == -1                \* a directory with files of two releases; a distribution pip left half
UpdatesInit ==
  /\ page = NoPage /\ hosted = None /\ public_key \in {"unset", "unreadable", "set"}
  /\ offer = NoPage /\ file = None /\ installing = {} /\ backup = << >> /\ published = 0
  /\ root = [e \in Entries |-> 0] /\ wheel = 0

service == <<offer, file, installing, root, wheel, backup>>

-----------------------------------------------------------------------------
\* The page of a package: the hash stands for its bytes.
create_version_json(p, url) == [version |-> p.release, url |-> url, hash |-> p]
PublishPage ==
  /\ published < MaxPublished /\ published' = published + 1
  /\ \E p \in Builds, url \in {"https", "http", "none"} :
       page' \in {NoPage, create_version_json(p, url), [create_version_json(p, url) EXCEPT !.hash = None]}
  /\ UNCHANGED <<hosted, public_key, service>>
PublishPackage ==
  /\ published < MaxPublished /\ published' = published + 1
  /\ hosted' \in Builds /\ UNCHANGED <<page, public_key, service>>

-----------------------------------------------------------------------------
\* Compared number by number. A page that cannot be had or read, or whose URL is not https, is no offer.
_is_newer_version(latest, current) == latest > current
_require_https_url(url) == url = "https"
service_check_for_updates(current_version) ==
  /\ installing = {}
  /\ offer' = IF page # NoPage /\ _is_newer_version(page.version, current_version) /\ page.url # "http" THEN page ELSE NoPage
  /\ UNCHANGED <<page, hosted, public_key, file, installing, root, wheel, backup, published>>

\* The name at the end of the URL decides the format.
_safe_download_filename(p) == p.format \in {"whl", "archive"}
Downloaded(p, expected_hash) == (expected_hash = None \/ expected_hash = p) /\ p.size > 0
\* What is hosted is whatever is there now. A caller may pass the hash of the offer, or none.
service_download_update ==
  /\ installing = {} /\ offer # NoPage
  /\ \/ file' = None                                  \* the network fails
     \/ /\ _require_https_url(offer.url) /\ hosted # None /\ _safe_download_filename(hosted)
        /\ \E expected_hash \in {offer.hash, None} : file' = IF Downloaded(hosted, expected_hash) THEN hosted ELSE None
  /\ UNCHANGED <<page, hosted, public_key, offer, installing, root, wheel, backup, published>>

\* A key that cannot be read counts as no key: signatures are then fetched but not compared.
_load_update_public_key == public_key = "set"
\* A signature is that of a release, 0 for no URL, or one that cannot be fetched or read.
Unreadable == -1
_fetch_signature(s) == s # Unreadable
SignatureAccepted(p, signature) ==
  IF _load_update_public_key THEN signature = p.release ELSE signature = 0 \/ _fetch_signature(signature)
verify_update_package(signature) == file.size > 1 /\ SignatureAccepted(file, signature)
\* A caller that verifies drops what does not pass. (Nothing makes it verify.)
VerifyUpdate ==
  /\ file # None /\ installing = {}
  /\ \E signature \in {0, Unreadable} \cup {p.release : p \in Builds} :
       file' = IF verify_update_package(signature) THEN file ELSE None
  /\ UNCHANGED <<page, hosted, public_key, offer, installing, root, wheel, backup, published>>

-----------------------------------------------------------------------------
\* pip succeeds, fails with what was there, or is killed after ten minutes.
InstallWheel ==
  /\ file # None /\ file.format = "whl" /\ installing = {}
  /\ wheel' \in {file.release, wheel, Mixed}
  /\ UNCHANGED <<page, hosted, public_key, offer, file, installing, root, backup, published>>

\* Everything is unpacked elsewhere first: an unsafe member, or none at all, changes nothing.
_safe_archive_target(p) == p.members # "unsafe"
_safe_unpack_archive(p) == IF _safe_archive_target(p) THEN p.entries ELSE {}
service_install_update(backup_dir) ==
  /\ file # None /\ file.format = "archive" /\ installing = {}
  /\ installing' = _safe_unpack_archive(file)
  /\ IF backup_dir /\ installing' # {} THEN backup' = root ELSE UNCHANGED backup
  /\ UNCHANGED <<page, hosted, public_key, offer, file, root, wheel, published>>
\* Merged in any order; entries the new release no longer has stay.
MergeEntry(e) ==
  /\ e \in installing /\ installing' = installing \ {e}
  /\ root' = [root EXCEPT ![e] = file.release]
  /\ UNCHANGED <<page, hosted, public_key, offer, file, wheel, backup, published>>
\* An error ends the merge, maybe inside a directory. Nothing restores the backup.
MergeFails(e) ==
  /\ e \in installing /\ installing' = {}
  /\ root' \in {root, [root EXCEPT ![e] = Mixed]}
  /\ UNCHANGED <<page, hosted, public_key, offer, file, wheel, backup, published>>

\* GET the update discovery of the orchestrator, which asks as version 1.0.0.
_handle_update_discovery == service_check_for_updates(1)
UpdatesNext ==
  \/ PublishPage \/ PublishPackage \/ _handle_update_discovery \/ service_check_for_updates(2)
  \/ service_download_update \/ VerifyUpdate \/ InstallWheel \/ \E b \in BOOLEAN : service_install_update(b)
  \/ \E e \in Entries : MergeEntry(e) \/ MergeFails(e)
=============================================================================
