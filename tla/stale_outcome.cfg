SPECIFICATION Spec
CONSTANTS
    rockchip = rockchip
    build = build
    site = site
    bundle = bundle
    Order <- InstallOrder
    Sorted <- ByName
    Guarded = {site, bundle}
    Packaged = {build}
    Rockchip = rockchip
    Build = build
    Site = site
    Bundles = {bundle}
    Optional = {rockchip}
    Restarting = {site}
    Bundled <- BundledDirectories
    Releases = 3
    MaxEvents = 4
INVARIANT UninstallLeavesNothing
CHECK_DEADLOCK FALSE
