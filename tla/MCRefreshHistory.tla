-------------------------- MODULE MCRefreshHistory --------------------------
EXTENDS RefreshHistory, MCPackageRefresh

\* What the steps and the properties of the run depend on: of the errors whether
\* there are any, of the stages the last one, of the published data the data.
DataView ==
  <<host, cached, pc, revision, Of(stats), stats.DPKGStatusLastModified,
    stats.APTListsLastModified, errs = {}, rebootRequired, DataOf(lastSnapshot),
    hasSuccessful, DataOf(published), history>>
=============================================================================
