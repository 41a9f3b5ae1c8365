--------------------------- MODULE DeviceMatching ---------------------------
(***************************************************************************)
(* The three judgements of a block device: whether a LocalVolumeSet may    *)
(* use it (matchers, excluders and filters of lvset/matcher.go), whether a *)
(* LocalVolume may (ignoreDevices of lv/reconcile.go), and what discovery  *)
(* reports about it (discovery.go).                                        *)
(*                                                                         *)
(* A device is a row of lsblk with what the filters read from the node:    *)
(*   ro, rm, rota              "0", "1", "" or "?" (anything else)         *)
(*   mounted, children, open   "0", "1", or "?" when the check fails       *)
(*   fsType, suspended, boot   BOOLEAN: a signature, a suspended device, a *)
(*                             label that contains "bios" or "boot"        *)
(*   size                      a number, or Nil when it cannot be parsed   *)
(*   vendor, model             the strings they contain, in lower case     *)
(*   type, kname                                                           *)
(***************************************************************************)
EXTENDS Naturals

CONSTANTS
    Nil,
    DefaultMinSize

ASSUME MatchingConstants == DefaultMinSize \in Nat /\ Nil \notin Nat

Fields == {"ro", "rm", "rota", "mounted", "children", "open", "fsType", "suspended", "boot",
           "size", "vendor", "model", "type", "kname"}

\* parseBitBool: "" is false, and another value is an error.
IsTrue(bit) == bit = "1"
IsFalse(bit) == bit \in {"0", ""}

-----------------------------------------------------------------------------
(* The matchers of a DeviceInclusionSpec, which may be Nil.                *)

inSizeRange(dev, spec) ==
    \/ spec = Nil
    \/ /\ dev.size # Nil
       /\ dev.size >= IF spec.minSize = Nil THEN DefaultMinSize ELSE spec.minSize
       /\ spec.maxSize # Nil => dev.size <= spec.maxSize

inTypeList(dev, spec) ==
    IF spec = Nil \/ spec.types = {} THEN dev.type = "disk" ELSE dev.type \in spec.types

inMechanicalPropertyList(dev, spec) ==
    \/ spec = Nil \/ spec.mechanical = {}
    \/ IsTrue(dev.rota) /\ "Rotational" \in spec.mechanical
    \/ IsFalse(dev.rota) /\ "NonRotational" \in spec.mechanical

inVendorList(dev, spec) ==
    spec = Nil \/ spec.vendors = {} \/ dev.vendor \cap spec.vendors # {}

inModelList(dev, spec) ==
    spec = Nil \/ spec.models = {} \/ dev.model \cap spec.models # {}

\* A pattern is the set of kernel names it matches, Nil if it is malformed; there
\* are none when the DeviceExclusionSpec is nil.
notInDeviceNameFilter(dev, patterns) ==
    \A p \in patterns : p # Nil /\ dev.kname \notin p

matchesDeviceSpec(dev, spec, patterns) ==
    /\ inSizeRange(dev, spec) /\ inTypeList(dev, spec) /\ inMechanicalPropertyList(dev, spec)
    /\ inVendorList(dev, spec) /\ inModelList(dev, spec)
    /\ notInDeviceNameFilter(dev, patterns)

-----------------------------------------------------------------------------
(* DefaultFilterMap: a filter that fails rejects the device.               *)

\* Mutant: mount points are not looked at.
PassesExceptMounted(dev) ==
    /\ IsFalse(dev.ro) /\ IsFalse(dev.rm) /\ ~dev.suspended /\ ~dev.boot /\ ~dev.fsType
    /\ dev.children = "0" /\ dev.open = "1"

Passes(dev) ==
    /\ IsFalse(dev.ro) /\ IsFalse(dev.rm) /\ ~dev.suspended /\ ~dev.boot /\ ~dev.fsType
    /\ dev.mounted = "0" /\ dev.children = "0" /\ dev.open = "1"

\* What the LocalVolume controller looks at.
LVIgnores(dev) == dev.mounted # "0" \/ dev.children # "0"

-----------------------------------------------------------------------------
(* Discovery.                                                              *)

SupportedTypes == {"disk", "part", "lvm", "mpath"}

ignoreDevices(dev) ==
    ~IsFalse(dev.ro) \/ dev.children # "0" \/ dev.suspended \/ dev.type \notin SupportedTypes

getDeviceStatus(dev) ==
    IF dev.fsType \/ dev.boot THEN "NotAvailable"
    ELSE IF dev.open = "?" THEN "Unknown"
    ELSE IF dev.open = "0" THEN "NotAvailable"
    ELSE IF dev.mounted = "?" THEN "Unknown"
    ELSE IF dev.mounted = "1" THEN "NotAvailable"
    ELSE "Available"

Reported(dev) == ~ignoreDevices(dev)
Available(dev) == Reported(dev) /\ getDeviceStatus(dev) = "Available"
=============================================================================
