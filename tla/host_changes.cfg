SPECIFICATION FairSpec
CONSTANTS
    rockchip = rockchip
    build = build
    site = site
    bundle = bundle
    Order <- InstallOrder
    Sorted <- ByName
    Guarded = {site, bundle}
    Packaged = {build}
    Rockchip = rockchip
    Build = build
    Site = site
    Bundles = {bundle}
    Optional = {rockchip}
    Restarting = {site}
    Bundled <- BundledDirectories
    Releases = 3
    MaxEvents = 4
INVARIANTS
    Undoable
    RockchipRecorded
    SiteNeedsBuild
    EditsSurvive
    RollbackWhole
    ServicesLoad
    UninstallRestores
PROPERTIES
    FirstPreimagesKept
    CommandsEnd
CHECK_DEADLOCK FALSE
