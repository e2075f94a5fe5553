------------------------------ MODULE Firmware ------------------------------
(***************************************************************************)
(* The firmware service: which release is offered to a radio, what makes a *)
(* downloaded bundle usable, which USB port an operation may touch, and    *)
(* the esptool commands an operation is made of.  Pure operators; Device   *)
(* runs them against the other threads.                                    *)
(***************************************************************************)
EXTENDS Naturals, Sequences, FiniteSets

CONSTANT None   \* Python's None
-----------------------------------------------------------------------------
(* Releases.  A release is a record: draft, pre(release), the targets its  *)
(* manifest lists, whether the platform's asset is there with a digest.    *)

\* discover_release: the first published release of the wanted channel, if it
\* supports the target and its asset can be verified; None is the error.
DiscoverRelease(catalog, target, prerelease) ==
    LET fits == {i \in DOMAIN catalog: ~catalog[i].draft /\ (prerelease \/ ~catalog[i].pre)}
        first == CHOOSE i \in fits: \A j \in fits: i <= j
    IN  IF fits # {} /\ target \in catalog[first].targets /\ catalog[first].verifiable
        THEN catalog[first].tag ELSE None

\* _download: a cached archive with the release's size and digest is used, any
\* other is fetched; what is fetched must have them too.
Archives == {"absent", "genuine", "other"}

Download(cached, fetched) ==
    IF cached = "genuine" \/ fetched = "genuine" THEN "genuine" ELSE None

\* prepare_bundle: the archive's own metadata must name the radio's target.
PrepareBundle(tag, target, archive, metadataTarget) ==
    IF archive = "genuine" /\ metadataTarget = target
    THEN [release |-> tag, target |-> target] ELSE None

\* validate_bundle, before a flash: no image is missing or changed since.
Images == {"update", "factory", "ota", "filesystem"}

ValidateBundle(changed) == changed \cap Images = {}
-----------------------------------------------------------------------------
(* USB identity.  at maps each radio to its port or None, serial maps it   *)
(* to its USB serial number or None; the radios are of one make, so vendor *)
(* and product always match.                                               *)

On(at, port) == {r \in DOMAIN at: at[r] = port}

SerialMatchesAny(serial, r, expected) == TRUE

SerialMatches(serial, r, expected) == expected = None \/ serial[r] = expected

\* _verify_usb: the radio on the port is the one that was connected.
VerifyUsb(at, serial, port, expected) ==
    \E r \in On(at, port): SerialMatches(serial, r, expected)

\* _automatic_bootloader_port: the port itself when a matching radio is on
\* it, else the only matching radio wherever it is; None while there is none.
BootloaderPort(at, serial, port, expected) ==
    LET matches == {r \in DOMAIN at: at[r] # None /\ SerialMatches(serial, r, expected)}
    IN  IF \E r \in matches: at[r] = port THEN port
        ELSE IF Cardinality(matches) = 1 THEN at[CHOOSE r \in matches: TRUE]
        ELSE None
-----------------------------------------------------------------------------
(* esptool commands after the chip was identified, in order.               *)

Plan(op, full) ==
    CASE op = "probe" -> <<"read-mac", "flash-id", "get-security-info">>
      [] op = "backup" -> <<"read-flash">>
      [] op = "flash" /\ full -> <<"erase-flash", "write-factory", "write-ota", "write-fs">>
      [] op = "flash" /\ ~full -> <<"write-update">>

Writes == {"erase-flash", "write-factory", "write-ota", "write-fs", "write-update"}

Commands == Writes \cup {"read-mac", "flash-id", "get-security-info", "read-flash"}

\* automatic_retry: a probe and a backup always try the 1200-baud entry, a
\* flash only for a bundle that requires it.
RetriesEntry(op, dfu) == op # "flash" \/ dfu
=============================================================================
