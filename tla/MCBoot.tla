------------------------------- MODULE MCBoot -------------------------------
(* Bounds for the model checking of Boot. *)
EXTENDS Boot

Plain ==
  [initramfs |-> TRUE, blkid |-> TRUE,
   live |-> FALSE, root |-> None, media |-> None, rootwait |-> FALSE, rootflags |-> <<>>,
   skip_copy |-> FALSE, iso_parse |-> TRUE, overlay |-> TRUE, squashfs_absolute |-> TRUE]
Live == [Plain EXCEPT !.live = TRUE, !.media = "label"]

(* Without an initramfs and without root=; disks and live media, with every    *)
(* form of parameter, with and without rootwait and blkid; live media in every *)
(* way to get at the image.                                                    *)
MCBoots ==
  { Plain, [Plain EXCEPT !.initramfs = FALSE],
    [Plain EXCEPT !.root = "path", !.rootwait = TRUE, !.rootflags = <<"rw", "noatime">>],
    [Plain EXCEPT !.root = "label", !.rootwait = TRUE, !.blkid = FALSE, !.rootflags = <<"rw", "ro">>],
    [Plain EXCEPT !.root = "empty"], [Plain EXCEPT !.root = "relative", !.rootwait = TRUE],
    [Live EXCEPT !.media = None], [Live EXCEPT !.media = "uuid"],
    [Live EXCEPT !.media = "partuuid", !.overlay = FALSE, !.skip_copy = TRUE, !.rootwait = TRUE],
    [Live EXCEPT !.iso_parse = FALSE, !.squashfs_absolute = FALSE] }
=============================================================================
