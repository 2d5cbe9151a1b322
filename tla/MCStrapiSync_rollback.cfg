SPECIFICATION FairSpec
CONSTANTS
    old = old
    new = new
    rebuilt = rebuilt
    strapi = strapi
    plugin = plugin
    sharp = sharp
    Images = {old, new, rebuilt}
    VersionOf <- MCVersionOf
    LockOf <- MCLockOf
    TreeOf <- MCLockOf
    TemplateDeps <- MCTemplateDeps
    Deps = {strapi, plugin, sharp}
    Strapi = strapi
    Absent = Absent
    Registry = Registry
    NoLock = NoLock
    Rollbacks = TRUE
INVARIANTS TypeOK ServedTreeIsCurrent HandAddedSurvive NoDowngradeUnlessSwitched
PROPERTY Converges
